---- MODULE Spec2Model ----
(***************************************************************************)
(* A model of the audio pipeline of node-native-audio.                     *)
(*                                                                         *)
(* Part 1: WhisperTranscriber                                              *)
(*   packages/whisper-native-core/src/whisper-transcriber.ts               *)
(*                                                                         *)
(* The transcriber runs on the single JavaScript thread.  A step of the    *)
(* model is one turn of the event loop: a method call from outside, which  *)
(* runs up to its first `await` of the inference provider, or the          *)
(* completion of one inference call, which runs every continuation that    *)
(* the completion makes ready (transcribeAudio after its await, then the   *)
(* method that awaited transcribeAudio, then dispose() after stop()).      *)
(* A call suspended on the provider is an entry of `pending`.  The         *)
(* provider (callWhisperModel) is external: a call to it completes in a    *)
(* later step, in any order, with a {text, confidence} pair or a failure.  *)
(*                                                                         *)
(* Confidence values are counted in tenths: 5 stands for 0.5.              *)
(*                                                                         *)
(* Part 2: AudioCapture, with its NativeAudioCapture and DeviceManager     *)
(*   packages/audio-capture-core/src/audio-capture.ts                      *)
(*   packages/audio-capture-core/src/device-manager.ts                     *)
(*                                                                         *)
(* The same turns of the event loop.  A call suspended on the device       *)
(* lookup or on the native addon is an entry of `capturePending`.  The     *)
(* addon is external: its calls complete in a later step, in any order,    *)
(* with success or failure, and its device enumeration returns any of a    *)
(* few device lists.                                                       *)
(*                                                                         *)
(* Part 3: DeviceManager with its cache and the clock                      *)
(*   packages/audio-capture-core/src/device-manager.ts                     *)
(*                                                                         *)
(* A DeviceManager of its own, with Date.now() in milliseconds.  Time      *)
(* passes in steps between the turns of the event loop.                    *)
(*                                                                         *)
(* Part 4: AudioProcessor                                                  *)
(*   packages/audio-processor-core/src/audio-processor.ts                  *)
(*                                                                         *)
(* The configuration is an object whose stage fields refer to objects of   *)
(* their own, so the model keeps those on a heap and the references in the *)
(* configuration.  The three apply... methods are where the DSP provider   *)
(* is called: a call completes in a later step with its input unchanged    *)
(* (what the placeholders return), with a transformed frame, or fails.     *)
(*                                                                         *)
(* Part 5: ModelManager                                                    *)
(*   packages/whisper-native-core/src/types.ts                             *)
(*                                                                         *)
(* simulateDownload stands where the download provider is called: it       *)
(* completes in a later step, or fails.  With an onProgress callback each  *)
(* pass of its loop is a step; without one only its end is.                *)
(*                                                                         *)
(* Part 6: Logger and ErrorHandler.retryOperation                          *)
(*   packages/logger/src/logger.ts, packages/logger/src/error-handler.ts   *)
(*                                                                         *)
(* A Logger with its level and what it wrote, and one retryOperation call  *)
(* at a time, whose operation and timer complete in later steps.           *)
(***************************************************************************)
EXTENDS Integers, Sequences, FiniteSets, TLC

\* ------------------------------------------------------------------ bounds
\* Spec: every method in every interleaving, a few frames (the flushes are
\* those of stop() and dispose()), one inference call in flight at a time
\* frames buffered after one start()
MaxFrames == 2
\* inference calls made in one behaviour
MaxWindows == 1
\* successful start() calls in one behaviour
MaxStarts == 2

\* SpecStream: every method in every interleaving, enough frames to pass the
\* flush threshold
StreamFrames == 12
StreamWindows == 2
StreamPending == 2
StreamStarts == 1

\* SpecAwaited: a caller that awaits every call before making the next one,
\* with two inference calls at most
AwaitedFrames == 11
AwaitedStarts == 1

\* SpecCapture: AudioCapture, every method in every interleaving, two calls
\* in flight at once
\* startCapture() calls that pass the already-running test
MaxCaptureStarts == 1
\* stopCapture() and dispose() calls that go on to stop the capture
MaxCaptureStops == 1
\* frames the addon delivers
MaxData == 1

\* SpecCaptureRace: the same with a second startCapture()
RaceStarts == 2
RaceStops == 1
RacePending == 2
RaceData == 1

\* SpecDevices: a DeviceManager, every method in every interleaving
\* getDevices() and refreshDevices() calls
MaxLookups == 3
\* DeviceManager calls waiting for the addon at once
MaxDevicePending == 1
\* steps of the clock
MaxTicks == 2
\* dispose() calls
MaxDeviceDisposes == 1

DeviceLimits ==
    [lookups |-> MaxLookups, pending |-> MaxDevicePending, ticks |-> MaxTicks,
     disposes |-> MaxDeviceDisposes]

\* SpecProcessor: an AudioProcessor, its life cycle and its failures
\* frames passed to an initialized processor
MaxProcessorFrames == 2
\* processAudio() calls waiting for a stage at once
MaxProcessorPending == 1
\* configure() calls
MaxConfigures == 1
\* initialize(), stop() and dispose() calls
MaxLifecycle == 2

\* SpecStages: the stages switched on and off
StageFrames == 1
StagePending == 1
StageConfigures == 1
StageLifecycle == 1

\* SpecConfig: the configuration read and written from outside
ConfigFrames == 1
ConfigPending == 1
ConfigConfigures == 2
ConfigLifecycle == 1
\* getConfig() calls
ConfigReads == 1
\* assignments of the caller to the object getConfig() returned
ConfigWrites == 2

\* SpecModels: a ModelManager, every method in every interleaving
\* downloadModel() calls that start a download
MaxDownloads == 3
\* downloads in flight at once
MaxTransfers == 2
\* removeModel() calls that remove a model
MaxRemoves == 1

ModelLimits ==
    [downloads |-> MaxDownloads, transfers |-> MaxTransfers,
     removes |-> MaxRemoves]

\* SpecProgress: a ModelManager whose callers pass onProgress
\* downloadModel() calls that start a download
ProgressDownloads == 2
\* removeModel() calls that remove a model
ProgressRemoves == 1

\* one download in flight at a time
ProgressLimits ==
    [downloads |-> ProgressDownloads, transfers |-> 1,
     removes |-> ProgressRemoves]

\* SpecLogger: a Logger, every level set and every level logged
\* lines kept of what the logger wrote
MaxLogged == 2

\* SpecRetry: retryOperation calls, one at a time
\* retryOperation() calls made in one behaviour
MaxRetryCalls == 2
\* the largest maxRetries passed
MaxMaxRetries == 3

\* simulateDownload(): chunkSize = totalSize / 100
Chunks == 100
\* simulateDownload(): Math.min(..., 100)
FullPercentage == 100
\* parseModelSize(): 100 * 1024 * 1024 for a string that is no size, in
\* units of 1024 * 1024 bytes
DefaultSize == 100

CaptureLimits ==
    [starts |-> MaxCaptureStarts, stops |-> MaxCaptureStops,
     pending |-> 2, data |-> MaxData]

\* SpecCaptureActive: startCapture() calls that reach the addon
ActiveStarts == 2

\* one stopCapture() or dispose() call that reaches the addon, two calls in
\* flight, one frame
ActiveLimits ==
    [starts |-> ActiveStarts, stops |-> 1, pending |-> 2, data |-> 1]

RaceLimits ==
    [starts |-> RaceStarts, stops |-> RaceStops, pending |-> RacePending,
     data |-> RaceData]

Limits ==
    [frames |-> MaxFrames, windows |-> MaxWindows, pending |-> 1,
     starts |-> MaxStarts]

StreamLimits ==
    [frames |-> StreamFrames, windows |-> StreamWindows,
     pending |-> StreamPending, starts |-> StreamStarts]

AwaitedLimits ==
    [frames |-> AwaitedFrames, windows |-> 2, pending |-> 1,
     starts |-> AwaitedStarts]

\* ------------------------------------------------------- program constants
\* frames buffered before a flush (whisper-transcriber.ts:87)
FlushThreshold == 10
\* the constructor's confidenceThreshold, 0.5 (whisper-transcriber.ts:20)
DefaultConfidenceThreshold == 5
\* the `|| 0.5` of the gate (whisper-transcriber.ts:131)
FallbackConfidenceThreshold == 5

\* ------------------------------------------------------------------ inputs
\* values configure() is called with
Thresholds == {0, 5, 8}
\* what the inference provider returns: a text (a sequence of characters) and
\* a confidence
ProviderResults ==
    { [text |-> <<" ", " ">>, confidence |-> 9],
      [text |-> <<" ", "h", "i", " ", "y", "o">>, confidence |-> 3],
      [text |-> <<" ", "h", "i", " ", "y", "o">>, confidence |-> 5],
      [text |-> <<" ", "h", "i", " ", "y", "o">>, confidence |-> 9] }

\* the samples of the k-th frame that processAudio buffers: frames differ in
\* length and no sample occurs twice
FrameData(k) == IF k % 2 = 1 THEN <<10 * k + 1>> ELSE <<10 * k + 1, 10 * k + 2>>

VARIABLES
    isInitialized,   \* this.isInitialized
    isTranscribing,  \* this.isTranscribing
    audioBuffer,     \* this.audioBuffer: a sequence of frames (sample sequences)
    config,          \* this.config.confidenceThreshold
    pending,         \* the asynchronous calls in flight, oldest first
    submitted,       \* history: the calls of callWhisperModel, in call order
    results,         \* history: the completions of callWhisperModel, in order
    events,          \* history: the events emitted, in order
    nframes,         \* history: frames buffered since the last start()
    session,         \* history: successful start() calls made so far
    last             \* history: the last step taken

vars == <<isInitialized, isTranscribing, audioBuffer, config, pending,
          submitted, results, events, nframes, session, last>>

VARIABLES
    isCapturing,       \* AudioCapture.isCapturing
    currentSession,    \* AudioCapture.currentSession: <<>> (null) or <<session>>
    nativeInitialized, \* isInitialized of AudioCapture's NativeAudioCapture
    intervals,         \* the setInterval timers of simulateAudioData still set
    dmInitialized,     \* isInitialized of DeviceManager's NativeAudioCapture
    cachedDevices,     \* DeviceManager.cachedDevices
    clock,             \* the last value read from Date.now()
    capturePending,    \* the asynchronous capture calls in flight, oldest first
    captureEvents,     \* history: the events AudioCapture emitted, in order
    providerCalls,     \* history: how often each addon function was called
    sessionIds,        \* history: the id of each session created, in order,
                       \* with the number of stop events emitted before it
    used,              \* history: how many calls and arrivals of each kind
    looked,            \* history: the last device lookup and what it returned
    disposed,          \* history: a dispose() call has resolved
    captureLast        \* history: the last capture step taken

captureVars == <<isCapturing, currentSession, nativeInitialized, intervals,
                 dmInitialized, cachedDevices, clock, capturePending,
                 captureEvents, providerCalls, sessionIds, used, looked,
                 disposed, captureLast>>

\* a DeviceManager of its own (Part 3)
VARIABLES
    deviceManager,     \* the object: cachedDevices, lastRefreshTime, and
                       \* isInitialized of its NativeAudioCapture
    dmClock,           \* what Date.now() returns, in milliseconds
    dmPending,         \* the calls waiting for the addon, oldest first
    dmCalls,           \* history: how often addon.getDevices() was called
    dmSnapshot,        \* history: <<>> or the last enumeration that succeeded
                       \* since the last refreshDevices(): when, and its list
    dmUsed,            \* history: how many calls and time steps were taken
    dmLast             \* history: the last DeviceManager step taken

dmVars == <<deviceManager, dmClock, dmPending, dmCalls, dmSnapshot, dmUsed,
            dmLast>>

\* an AudioProcessor (Part 4)
VARIABLES
    processor,         \* the object: config, isInitialized, isProcessing;
                       \* config holds a reference for each stage object
    objects,           \* the heap of stage configuration objects: a
                       \* reference is an index of this sequence
    apPending,         \* the processAudio() calls waiting for a stage: the
                       \* frame's number, the caller's array, processedData
                       \* and the stage called
    apEmitted,         \* history: the events the last step emitted, in order
    returned,          \* <<>> or the object the last getConfig() returned
    apUsed,            \* history: how many calls of each kind were made
    apLast             \* history: the last AudioProcessor step taken

apVars == <<processor, objects, apPending, apEmitted, returned, apUsed, apLast>>

\* a ModelManager (Part 5)
VARIABLES
    models,            \* ModelManager.models: name -> isDownloaded, localPath
    transfers,         \* the downloadModel() calls waiting for the download
    mmUsed,            \* history: how many calls of each kind were made
    mmLast             \* history: the last ModelManager step taken

mmVars == <<models, transfers, mmUsed, mmLast>>

\* a Logger and the retryOperation call in progress (Part 6)
VARIABLES
    logger,            \* Logger.config.level, the lines written (their
                       \* levels), and the last call made (history)
    retry              \* the locals of retryOperation, where it stands, and
                       \* what the operation did (history)

\* the state of the objects other than the transcriber and the capture
otherVars == <<dmVars, apVars, mmVars, logger, retry>>

\* the state a step of one object leaves alone
notDevices == <<vars, captureVars, apVars, mmVars, logger, retry>>
notProcessor == <<vars, captureVars, dmVars, mmVars, logger, retry>>
notModels == <<vars, captureVars, dmVars, apVars, logger, retry>>
notLogger == <<vars, captureVars, dmVars, apVars, mmVars, retry>>
notRetry == <<vars, captureVars, dmVars, apVars, mmVars, logger>>

\* ----------------------------------------------------------- pure helpers
Range(s) == {s[i] : i \in DOMAIN s}

RECURSIVE SumLengths(_)
\* audioBuffer.reduce((sum, buffer) => sum + buffer.length, 0)
SumLengths(buffers) ==
    IF buffers = <<>> THEN 0
    ELSE Len(Head(buffers)) + SumLengths(Tail(buffers))

\* combined.set(buffer, offset)
SetAt(combined, buffer, offset) ==
    [i \in DOMAIN combined |->
        IF i > offset /\ i <= offset + Len(buffer) THEN buffer[i - offset]
        ELSE combined[i]]

RECURSIVE CombineLoop(_, _, _)
\* for (const buffer of this.audioBuffer) { combined.set(...); offset += ... }
CombineLoop(buffers, combined, offset) ==
    IF buffers = <<>> THEN combined
    ELSE CombineLoop(Tail(buffers),
                     SetAt(combined, Head(buffers), offset),
                     offset + Len(Head(buffers)))

\* combineAudioBuffers(): one array holding the buffered frames end to end
combineAudioBuffers(buffers) ==
    CombineLoop(buffers, [i \in 1..SumLengths(buffers) |-> 0], 0)

IsSpace(c) == c = " "

RECURSIVE TrimStart(_)
TrimStart(text) ==
    IF text # <<>> /\ IsSpace(Head(text)) THEN TrimStart(Tail(text)) ELSE text

RECURSIVE TrimEnd(_)
TrimEnd(text) ==
    IF text # <<>> /\ IsSpace(text[Len(text)])
    THEN TrimEnd(SubSeq(text, 1, Len(text) - 1))
    ELSE text

\* String.prototype.trim
Trim(text) == TrimEnd(TrimStart(text))

\* text.split(' ').length: one more than the number of spaces
SplitCount(text) == 1 + Cardinality({i \in DOMAIN text : IsSpace(text[i])})

\* this.config.confidenceThreshold || 0.5: 0 is falsy
EffectiveThreshold(configured) ==
    IF configured = 0 THEN FallbackConfidenceThreshold ELSE configured

\* mutant of PassesGate: `||` written for `&&`
PassesGateEither(text, confidence, configured) ==
    Trim(text) # <<>> \/ confidence >= EffectiveThreshold(configured)

\* the condition of the `if` of transcribeAudio
PassesGate(text, confidence, configured) ==
    Trim(text) # <<>> /\ confidence >= EffectiveThreshold(configured)

\* Started: initialize() and start() have run and neither stop() nor
\* dispose() since
Started == isInitialized /\ isTranscribing

\* mutant of NotAccepting: the test of isTranscribing left out
NotAcceptingUnlessInitialized == ~isInitialized

\* the early return of processAudio
NotAccepting == ~isInitialized \/ ~isTranscribing

\* mutant of ReachedThreshold: `>` written for `>=`
ReachedThresholdLate(buffers) == Len(buffers) > FlushThreshold

\* the test that starts a flush in processAudio
ReachedThreshold(buffers) == Len(buffers) >= FlushThreshold

\* ------------------------------------------------------------------ events
TranscriptionEvent(w, text, confidence) ==
    [type |-> "transcription", win |-> w, code |-> "", text |-> text,
     confidence |-> confidence, tokens |-> 0]

StatsEvent(w, text, confidence) ==
    [type |-> "stats", win |-> w, code |-> "", text |-> <<>>,
     confidence |-> confidence, tokens |-> SplitCount(text)]

ErrorEvent(w, code) ==
    [type |-> "error", win |-> w, code |-> code, text |-> <<>>,
     confidence |-> 0, tokens |-> 0]

\* what transcribeAudio emits once callWhisperModel has returned
EmittedOnResult(w, text, confidence) ==
    IF PassesGate(text, confidence, config)
    THEN <<TranscriptionEvent(w, text, confidence), StatsEvent(w, text, confidence)>>
    ELSE <<>>

\* --------------------------------------------------------------- the state
\* the state after `new WhisperTranscriber()`
TranscriberInit ==
    /\ isInitialized = FALSE
    /\ isTranscribing = FALSE
    /\ audioBuffer = <<>>
    /\ config = DefaultConfidenceThreshold
    /\ pending = <<>>
    /\ submitted = <<>>
    /\ results = <<>>
    /\ events = <<>>
    /\ nframes = 0
    /\ session = 0
    /\ last = "new"

\* the state after `new AudioCapture()`, once the NativeAudioCapture
\* constructors' initializeAddon() calls have resolved
CaptureInit ==
    /\ isCapturing = FALSE
    /\ currentSession = <<>>
    /\ nativeInitialized = TRUE
    /\ intervals = 0
    /\ dmInitialized = TRUE
    /\ cachedDevices = <<>>
    /\ clock = 0
    /\ capturePending = <<>>
    /\ captureEvents = <<>>
    /\ providerCalls = [start |-> 0, stop |-> 0]
    /\ sessionIds = <<>>
    /\ used = [starts |-> 0, stops |-> 0, data |-> 0]
    /\ looked = [phase |-> "", deviceId |-> "", list |-> <<>>]
    /\ disposed = FALSE
    /\ captureLast = "new"

\* both objects constructed
\* Date.now() when the DeviceManager is constructed: a time at least
\* CACHE_DURATION after the epoch
CACHE_DURATION == 5000

StartTime == CACHE_DURATION

\* no step of the DeviceManager has been taken
NoStep ==
    [step |-> "new", after |-> "", now |-> 0, returned |-> <<>>,
     provider |-> FALSE, rejected |-> FALSE]

\* new DeviceManager(): the addon of its NativeAudioCapture loaded
DevicesInit ==
    /\ deviceManager = [cachedDevices |-> <<>>, lastRefreshTime |-> 0,
                        isInitialized |-> TRUE]
    /\ dmClock = StartTime
    /\ dmPending = <<>>
    /\ dmCalls = 0
    /\ dmSnapshot = <<>>
    /\ dmUsed = [lookups |-> 0, ticks |-> 0, disposes |-> 0]
    /\ dmLast = NoStep

\* the stages of the processor, by the name of their configuration field
EchoCancellation == "echoCancellation"
NoiseSuppression == "noiseSuppression"
AutomaticGainControl == "automaticGainControl"
Stages == {EchoCancellation, NoiseSuppression, AutomaticGainControl}

\* the stage objects of the default configuration, in the order in which the
\* constructor's literal creates them
DefaultObjects ==
    << [enabled |-> TRUE, delay |-> 0, filterLength |-> 256],
       [enabled |-> TRUE, level |-> "moderate"],
       [enabled |-> TRUE, targetLevel |-> -18, compressionGain |-> 9] >>

\* no step of the AudioProcessor has been taken
NoProcessorStep ==
    [step |-> "new", frame |-> 0, threw |-> "", input |-> <<>>, data |-> <<>>,
     partial |-> <<>>]

\* new AudioProcessor(): the default configuration
ProcessorInit ==
    /\ processor = [config |-> [echoCancellation |-> 1, noiseSuppression |-> 2,
                                automaticGainControl |-> 3,
                                simdOptimization |-> TRUE],
                    isInitialized |-> FALSE, isProcessing |-> FALSE]
    /\ objects = DefaultObjects
    /\ apPending = <<>>
    /\ apEmitted = <<>>
    /\ returned = <<>>
    /\ apUsed = [frames |-> 0, failed |-> 0, configures |-> 0, reads |-> 0,
                 writes |-> 0, lifecycle |-> 0]
    /\ apLast = NoProcessorStep

\* the models initializeDefaultModels() registers (two of the five)
ModelNames == {"tiny", "base"}

\* no step of the ModelManager has been taken
NoModelStep ==
    [step |-> "new", name |-> "", threw |-> "", progress |-> <<>>,
     early |-> FALSE, after |-> <<>>]

\* new ModelManager(): no model downloaded, localPath undefined
ModelsInit ==
    /\ models = [name \in ModelNames |-> [isDownloaded |-> FALSE, localPath |-> <<>>]]
    /\ transfers = <<>>
    /\ mmUsed = [downloads |-> 0, removes |-> 0]
    /\ mmLast = NoModelStep

\* enum LogLevel
LogLevel ==
    [ERROR |-> 0, WARN |-> 1, INFO |-> 2, DEBUG |-> 3, TRACE |-> 4]

LogLevels == {LogLevel.ERROR, LogLevel.WARN, LogLevel.INFO, LogLevel.DEBUG,
              LogLevel.TRACE}

\* new Logger(): level INFO, nothing written
LoggerInit ==
    logger = [level |-> LogLevel.INFO, output |-> <<>>,
              last |-> [step |-> "new", level |-> LogLevel.INFO,
                        answer |-> FALSE]]

\* no retryOperation call has been made
NoRetry ==
    [phase |-> "idle", maxRetries |-> 0, baseDelay |-> 0, attempt |-> 0,
     lastError |-> "undefined", delay |-> 0, invoked |-> 0,
     failed |-> "none", settled |-> "", calls |-> 0]

RetryInit ==
    retry = NoRetry

Init ==
    /\ TranscriberInit
    /\ CaptureInit
    /\ DevicesInit
    /\ ProcessorInit
    /\ ModelsInit
    /\ LoggerInit
    /\ RetryInit

Without(seq, i) == SubSeq(seq, 1, i - 1) \o SubSeq(seq, i + 1, Len(seq))

\* transcribeAudio(combined) up to its await of callWhisperModel, called by
\* the method `kind`
transcribeAudio(L, kind, combined) ==
    /\ Len(pending) < L.pending
    /\ Len(submitted) < L.windows
    /\ submitted' = Append(submitted,
          [audio |-> combined, kind |-> kind, session |-> session,
           after |-> Len(results)])
    /\ pending' = Append(pending, [kind |-> kind, win |-> Len(submitted) + 1])

\* initialize(): no await in its body
initialize ==
    /\ UNCHANGED <<captureVars, otherVars>>
    /\ isInitialized' = TRUE
    /\ last' = "initialize"
    /\ UNCHANGED <<isTranscribing, audioBuffer, config, pending, submitted,
                   results, events, nframes, session>>

\* configure({confidenceThreshold: t})
configure(t) ==
    /\ UNCHANGED <<captureVars, otherVars>>
    /\ config' = t
    /\ last' = "configure"
    /\ UNCHANGED <<isInitialized, isTranscribing, audioBuffer, pending, submitted,
                   results, events, nframes, session>>

\* mutant of start: `this.audioBuffer = []` left out
startKeepingBuffer(L) ==
    /\ UNCHANGED <<captureVars, otherVars>>
    /\ IF ~isInitialized
       THEN /\ last' = "startThrows"
            /\ UNCHANGED <<isInitialized, isTranscribing, audioBuffer, config, pending,
                           submitted, results, events, nframes, session>>
       ELSE /\ session < L.starts
            /\ isTranscribing' = TRUE
            /\ nframes' = Len(audioBuffer)
            /\ session' = session + 1
            /\ last' = "start"
            /\ UNCHANGED <<isInitialized, audioBuffer, config, pending, submitted,
                           results, events>>

\* start(): throws when initialize() has not run, else sets the flag and
\* empties the buffer
start(L) ==
    /\ UNCHANGED <<captureVars, otherVars>>
    /\ IF ~isInitialized
       THEN /\ last' = "startThrows"
            /\ UNCHANGED <<isInitialized, isTranscribing, audioBuffer, config, pending,
                           submitted, results, events, nframes, session>>
       ELSE /\ session < L.starts
            /\ isTranscribing' = TRUE
            /\ audioBuffer' = <<>>
            /\ nframes' = 0
            /\ session' = session + 1
            /\ last' = "start"
            /\ UNCHANGED <<isInitialized, config, pending, submitted, results, events>>

\* processAudio(audioData) up to its await: a no-op unless initialized and
\* transcribing; else the push and, at the threshold, the flush
processAudio(L) ==
    /\ UNCHANGED <<captureVars, otherVars>>
    /\ IF NotAccepting
       THEN /\ last' = "processAudioDropped"
            /\ UNCHANGED <<isInitialized, isTranscribing, audioBuffer, config, pending,
                           submitted, results, events, nframes, session>>
       ELSE /\ nframes < L.frames
            /\ audioBuffer' = Append(audioBuffer, FrameData(nframes + 1))
            /\ nframes' = nframes + 1
            /\ IF ReachedThreshold(audioBuffer')
               THEN transcribeAudio(L, "processAudio", combineAudioBuffers(audioBuffer'))
               ELSE UNCHANGED <<pending, submitted>>
            /\ last' = "processAudio"
            /\ UNCHANGED <<isInitialized, isTranscribing, config, results, events,
                           session>>

\* the body of stop() up to its await (or to its end), run for `kind`
stopBody(L, kind) ==
    /\ UNCHANGED <<captureVars, otherVars>>
    /\ isTranscribing' = FALSE
    /\ IF Len(audioBuffer) > 0
       THEN /\ transcribeAudio(L, kind, combineAudioBuffers(audioBuffer))
            /\ UNCHANGED isInitialized
       ELSE /\ isInitialized' = (IF kind = "dispose" THEN FALSE ELSE isInitialized)
            /\ UNCHANGED <<pending, submitted>>
    /\ last' = kind
    /\ UNCHANGED <<audioBuffer, config, results, events, nframes, session>>

\* stop()
stop(L) ==
    /\ stopBody(L, "stop")

\* dispose(): `await this.stop()`, then this.isInitialized = false
dispose(L) ==
    /\ stopBody(L, "dispose")

\* the method that awaited transcribeAudio goes on after it has returned:
\* processAudio and stop() empty the buffer, dispose() then clears the flag
resumeAfterTranscribe(kind) ==
    /\ audioBuffer' = <<>>
    /\ isInitialized' = (IF kind = "dispose" THEN FALSE ELSE isInitialized)

\* callWhisperModel returns {text, confidence}: transcribeAudio passes its gate
\* and returns, and the method that awaited it goes on
inferenceReturns(i, text, confidence) ==
    /\ UNCHANGED <<captureVars, otherVars>>
    /\ results' = Append(results,
          [win |-> pending[i].win, ok |-> TRUE, text |-> text,
           confidence |-> confidence])
    /\ events' = events \o EmittedOnResult(pending[i].win, text, confidence)
    /\ resumeAfterTranscribe(pending[i].kind)
    /\ pending' = Without(pending, i)
    /\ last' = "inferenceReturns"
    /\ UNCHANGED <<isTranscribing, config, submitted, nframes, session>>

\* what the callers' catch blocks emit when transcribeAudio has thrown: only
\* processAudio has one; stop() and dispose() just reject
EmittedOnThrow(kind, w) ==
    IF kind = "processAudio" THEN <<ErrorEvent(w, "PROCESSING_FAILED")>> ELSE <<>>

\* callWhisperModel fails: the catch of transcribeAudio emits and rethrows,
\* and the method that awaited it rejects
inferenceFails(i) ==
    /\ UNCHANGED <<captureVars, otherVars>>
    /\ results' = Append(results,
          [win |-> pending[i].win, ok |-> FALSE, text |-> <<>>, confidence |-> 0])
    /\ events' = events
                 \o <<ErrorEvent(pending[i].win, "TRANSCRIPTION_FAILED")>>
                 \o EmittedOnThrow(pending[i].kind, pending[i].win)
    /\ pending' = Without(pending, i)
    /\ last' = "inferenceFails"
    /\ UNCHANGED <<isInitialized, isTranscribing, audioBuffer, config, submitted,
                   nframes, session>>

Next ==
    \/ initialize
    \/ \E t \in Thresholds : configure(t)
    \/ start(Limits)
    \/ processAudio(Limits)
    \/ stop(Limits)
    \/ dispose(Limits)
    \/ \E i \in DOMAIN pending, r \in ProviderResults :
          inferenceReturns(i, r.text, r.confidence)
    \/ \E i \in DOMAIN pending : inferenceFails(i)

Spec == Init /\ [][Next]_vars

StreamNext ==
    \/ initialize
    \/ \E t \in Thresholds : configure(t)
    \/ start(StreamLimits)
    \/ processAudio(StreamLimits)
    \/ stop(StreamLimits)
    \/ dispose(StreamLimits)
    \/ \E i \in DOMAIN pending, r \in ProviderResults :
          inferenceReturns(i, r.text, r.confidence)
    \/ \E i \in DOMAIN pending : inferenceFails(i)

SpecStream == Init /\ [][StreamNext]_vars

\* the caller awaits each call: no call is made while one is in flight
AwaitedNext ==
    \/ pending = <<>> /\ initialize
    \/ pending = <<>> /\ \E t \in Thresholds : configure(t)
    \/ pending = <<>> /\ start(AwaitedLimits)
    \/ pending = <<>> /\ processAudio(AwaitedLimits)
    \/ pending = <<>> /\ stop(AwaitedLimits)
    \/ pending = <<>> /\ dispose(AwaitedLimits)
    \/ \E i \in DOMAIN pending, r \in ProviderResults :
          inferenceReturns(i, r.text, r.confidence)
    \/ \E i \in DOMAIN pending : inferenceFails(i)

SpecAwaited == Init /\ [][AwaitedNext]_vars

\* ------------------------------------------------- what the claims speak of
RECURSIVE Flatten(_)
\* the sequences of a sequence, end to end
Flatten(seqs) == IF seqs = <<>> THEN <<>> ELSE Head(seqs) \o Flatten(Tail(seqs))

IsPrefix(s, t) == Len(s) <= Len(t) /\ SubSeq(t, 1, Len(s)) = s

\* the samples of frames lo..hi of the current session, in arrival order
Samples(lo, hi) == Flatten([k \in 1..(hi - lo + 1) |-> FrameData(lo + k - 1)])

\* the samples accepted since the last start(), in arrival order
AcceptedSamples == Samples(1, nframes)

\* the numbers of the inference calls made in session s, in call order
WindowsOf(s) == {i \in DOMAIN submitted : submitted[i].session = s}

RECURSIVE AudioFrom(_, _)
\* the audio of the inference calls i.. of session s, end to end
AudioFrom(i, s) ==
    IF i > Len(submitted) THEN <<>>
    ELSE (IF submitted[i].session = s THEN submitted[i].audio ELSE <<>>)
         \o AudioFrom(i + 1, s)

\* the samples still buffered
BufferedSamples == Flatten(audioBuffer)

\* the inference calls that have completed
Completed == {results[q].win : q \in DOMAIN results}

\* the inference calls of the current session that failed
FailedNow ==
    {results[q].win : q \in {x \in DOMAIN results :
        ~results[x].ok /\ submitted[results[x].win].session = session}}

EventsOf(type) == {j \in DOMAIN events : events[j].type = type}

\* C1 (as claimed): while the transcriber is Started, the audio submitted to
\* inference since start(), in submission order, is a prefix of the accepted
\* samples in arrival order (nothing twice, nothing out of order), and every
\* accepted sample is either in a submitted window or still buffered (nothing
\* lost).
C1_NoLossNoDuplication ==
    Started =>
        /\ IsPrefix(AudioFrom(1, session), AcceptedSamples)
        /\ Range(AcceptedSamples) \subseteq
              Range(AudioFrom(1, session)) \cup Range(BufferedSamples)

\* C2 (as claimed): at most one inference call is unresolved in any state.
C2_OneInferenceInFlight == Len(pending) <= 1

\* C3 (as claimed): transcription and stats events come in window-submission
\* order, and none is emitted for a window while an earlier window's inference
\* call has not completed.
C3_EmittedInSubmissionOrder ==
    /\ \A i, j \in EventsOf("transcription") \cup EventsOf("stats") :
          i < j => events[i].win <= events[j].win
    /\ \A j \in EventsOf("transcription") \cup EventsOf("stats") :
          \A w \in 1..(events[j].win - 1) : w \in Completed

C5_StopFlushesOnce ==
    \A i, j \in DOMAIN submitted :
        (/\ i < j
         /\ submitted[i].session = submitted[j].session
         /\ submitted[i].kind \in {"stop", "dispose"}
         /\ submitted[j].kind \in {"stop", "dispose"})
        => Range(submitted[i].audio) \cap Range(submitted[j].audio) = {}

\* the events a step adds
NewEvents == {events'[j] : j \in (Len(events) + 1)..Len(events')}

\* C6: a step emits a transcription event only with a text that is not blank
\* after trimming and a confidence at or above the configured threshold.
C6_ConfidenceGate ==
    [][\A e \in NewEvents :
          e.type = "transcription" =>
             /\ Trim(e.text) # <<>>
             /\ e.confidence >= config]_vars

\* C6 witness: a transcription event is out for a result at or above a
\* configured threshold that is above the default.
C6_Witness ==
    /\ EventsOf("transcription") # {}
    /\ \E q \in DOMAIN results : results[q].ok /\ results[q].confidence >= config
    /\ config > DefaultConfidenceThreshold

\* C7 (as claimed): every inference call that has returned is followed by
\* exactly one stats event.
C7_StatsForEveryResult ==
    \A q \in DOMAIN results :
        results[q].ok =>
            Cardinality({j \in EventsOf("stats") : events[j].win = results[q].win}) = 1

\* C8 (as claimed): once the inference call of a window made by processAudio
\* has failed, an error event is out for it and no inference call made
\* afterwards in that session holds a sample of the failed window.
C8_FailedWindowDropped ==
    \A q \in DOMAIN results :
        LET w == results[q].win IN
        (~results[q].ok /\ submitted[w].kind = "processAudio") =>
            /\ \E j \in EventsOf("error") : events[j].win = w
            /\ \A i \in DOMAIN submitted :
                  (submitted[i].after >= q /\ submitted[i].session = submitted[w].session)
                  => Range(submitted[i].audio) \cap Range(submitted[w].audio) = {}

\* C9: a processAudio call made while the transcriber is not initialized or
\* not transcribing returns and changes nothing: the buffer, the calls in
\* flight, the inference calls made, the events and the flags stay as they are.
C9_DroppedWhenNotStarted ==
    [][(last' \in {"processAudio", "processAudioDropped"} /\ ~Started)
          => /\ last' = "processAudioDropped"
             /\ UNCHANGED <<isInitialized, isTranscribing, audioBuffer, config,
                            pending, submitted, results, events, nframes, session>>]_vars

\* C9 witness: processAudio was called after stop(), with the flush of stop()
\* still in flight and the buffer not empty.
C9_Witness ==
    /\ last = "processAudioDropped"
    /\ isInitialized /\ ~isTranscribing
    /\ audioBuffer # <<>>
    /\ pending # <<>>

\* C10: start() before initialize() (or after dispose()) throws and leaves the
\* transcriber not Started and its state as it was; start() after
\* initialize() empties the buffer and sets isTranscribing.
C10_Start ==
    [][last' \in {"start", "startThrows"} =>
          IF ~isInitialized
          THEN /\ last' = "startThrows"
               /\ ~Started'
               /\ UNCHANGED <<isInitialized, isTranscribing, audioBuffer, pending,
                              submitted, events>>
          ELSE /\ last' = "start"
               /\ audioBuffer' = <<>>
               /\ isTranscribing']_vars

\* C10 witness: the second start() was made while the flush of stop() was in
\* flight, so with the flushed frames still in the buffer, and has emptied it.
C10_Witness ==
    /\ last = "start"
    /\ session = 2
    /\ pending # <<>>
    /\ audioBuffer = <<>>
    /\ isTranscribing

\* =========================================================== AudioCapture
\* ------------------------------------------------------------------ inputs
MICROPHONE == "microphone"
SPEAKERS == "speakers"
SYSTEM_AUDIO == "system_audio"
LOOPBACK == "loopback"

\* the device lists the addon's getDevices() returns, as the addon gives them
Catalogs ==
    { <<>>,
      <<[id |-> "mic1", type |-> "mic", isDefault |-> TRUE]>>,
      <<[id |-> "mic2", type |-> "input", isDefault |-> FALSE],
        [id |-> "spk1", type |-> "speakers", isDefault |-> TRUE]>> }

\* options.deviceId as the caller gives it: "" stands for none given
DeviceIds == {"", "mic1", "ghost"}

FormatFields == {"sampleRate", "channels", "bitsPerSample", "signed", "float"}

\* the format startCapture() sets when options.format is missing
DefaultFormat ==
    [sampleRate |-> 16000, channels |-> 1, bitsPerSample |-> 16,
     signed |-> TRUE, float |-> FALSE]

\* options.format as the caller gives it: <<>> for none, else <<format>>, a
\* format being a record of the fields the caller has set
Formats ==
    { <<>>,
      <<[sampleRate |-> 44100]>> }

\* format.k: <<value>>, or <<>> for undefined
Field(format, k) == IF k \in DOMAIN format THEN <<format[k]>> ELSE <<>>

\* --------------------------------------------------------- DeviceManager
\* mapDeviceType(nativeType)
mapDeviceType(nativeType) ==
    CASE nativeType \in {"microphone", "mic", "input"} -> MICROPHONE
      [] nativeType \in {"speakers", "output"} -> SPEAKERS
      [] nativeType \in {"system_audio", "system"} -> SYSTEM_AUDIO
      [] nativeType = "loopback" -> LOOPBACK
      [] OTHER -> MICROPHONE

\* processDevice(rawDevice), for the fields the capture reads
processDevice(rawDevice) ==
    [id |-> rawDevice.id, type |-> mapDeviceType(rawDevice.type),
     isDefault |-> rawDevice.isDefault]

\* what DeviceManager.getDevices() can return and leave in its cache: the
\* cached list while it is not empty and not older than CACHE_DURATION, else
\* the list the addon returns, or [] when the addon call fails or the
\* DeviceManager's NativeAudioCapture is not initialized
LookupOutcomes ==
    (IF cachedDevices # <<>>
     THEN {[list |-> cachedDevices, cache |-> cachedDevices]} ELSE {})
    \cup (IF dmInitialized
          THEN {[list |-> [i \in DOMAIN raw |-> processDevice(raw[i])],
                 cache |-> [i \in DOMAIN raw |-> processDevice(raw[i])]]
                   : raw \in Catalogs}
          ELSE {})
    \cup {[list |-> <<>>, cache |-> cachedDevices]}

\* devices.filter(type).find(device => device.isDefault) || null
FirstDefault(list, type) ==
    LET found == {i \in DOMAIN list : list[i].type = type /\ list[i].isDefault}
    IN  IF found = {} THEN <<>>
        ELSE <<list[CHOOSE i \in found : \A j \in found : i <= j]>>

\* `!defaultDevice` of startCapture
NoDefaultDevice(list) == FirstDefault(list, MICROPHONE) = <<>>

\* mutant of DeviceMissing: the validation left out
DeviceMissingNever(list, deviceId) == FALSE

\* `!device` of startCapture, device being devices.find(d => d.id === deviceId)
DeviceMissing(list, deviceId) == ~\E i \in DOMAIN list : list[i].id = deviceId

\* no device lookup has returned in the last step
NotLooked == [phase |-> "", deviceId |-> "", list |-> <<>>]

\* ----------------------------------------------------------------- events
CaptureEvent(type, code, deviceId) ==
    [type |-> type, code |-> code, deviceId |-> deviceId]

\* a suspended call: the method, the await it is at, whether the addon was
\* called for it, and the options of startCapture
Suspended(op, phase, called, deviceId, format, requested) ==
    [op |-> op, phase |-> phase, called |-> called, deviceId |-> deviceId,
     format |-> format, requested |-> requested]

\* the test at the head of startCapture
AlreadyRunning == isCapturing

\* mutant of NotCapturing: the early return left out
NotCapturingNever == FALSE

\* the test at the head of stopCapture
NotCapturing == ~isCapturing

\* ---------------------------------------------------------------- actions
\* mutant of startCapture: the already-running test made inside the `try`, so
\* that the catch emits an error event before the call rejects
startCaptureTestInTry(L, deviceId, format) ==
    /\ UNCHANGED <<vars, otherVars>>
    /\ IF AlreadyRunning
       THEN /\ captureLast' = "startCaptureThrows"
            /\ captureEvents' = Append(captureEvents,
                  [type |-> "error", code |-> "START_FAILED", deviceId |-> ""])
            /\ UNCHANGED <<isCapturing, currentSession, nativeInitialized, intervals,
                           dmInitialized, cachedDevices, clock, capturePending,
                           providerCalls, sessionIds, used, disposed>>
       ELSE /\ used.starts < L.starts
            /\ Len(capturePending) < L.pending
            /\ capturePending' = Append(capturePending,
                  Suspended("startCapture",
                            IF deviceId = "" THEN "getDefaultDevice" ELSE "getDevices",
                            FALSE, deviceId, format, format))
            /\ used' = [used EXCEPT !.starts = @ + 1]
            /\ captureLast' = "startCapture"
            /\ UNCHANGED <<isCapturing, currentSession, nativeInitialized, intervals,
                           dmInitialized, cachedDevices, clock, captureEvents,
                           providerCalls, sessionIds, disposed>>
    /\ looked' = NotLooked

\* startCapture(options) up to its first await
startCapture(L, deviceId, format) ==
    /\ UNCHANGED <<vars, otherVars>>
    /\ IF AlreadyRunning
       THEN /\ captureLast' = "startCaptureThrows"
            /\ UNCHANGED <<isCapturing, currentSession, nativeInitialized, intervals,
                           dmInitialized, cachedDevices, clock, capturePending,
                           captureEvents, providerCalls, sessionIds, used,
                           disposed>>
       ELSE /\ used.starts < L.starts
            /\ Len(capturePending) < L.pending
            /\ capturePending' = Append(capturePending,
                  Suspended("startCapture",
                            IF deviceId = "" THEN "getDefaultDevice" ELSE "getDevices",
                            FALSE, deviceId, format, format))
            /\ used' = [used EXCEPT !.starts = @ + 1]
            /\ captureLast' = "startCapture"
            /\ UNCHANGED <<isCapturing, currentSession, nativeInitialized, intervals,
                           dmInitialized, cachedDevices, clock, captureEvents,
                           providerCalls, sessionIds, disposed>>
    /\ looked' = NotLooked

\* the catch of startCapture: the error event, and the call rejects
startFailed(i, how) ==
    /\ captureEvents' = Append(captureEvents, CaptureEvent("error", "START_FAILED", ""))
    /\ capturePending' = Without(capturePending, i)
    /\ captureLast' = how

\* `await this.getDefaultDevice(MICROPHONE)` returns
defaultDeviceReturns(i, out) ==
    /\ UNCHANGED <<vars, otherVars>>
    /\ capturePending[i].phase = "getDefaultDevice"
    /\ cachedDevices' = out.cache
    /\ looked' = [phase |-> "getDefaultDevice", deviceId |-> "", list |-> out.list]
    /\ IF NoDefaultDevice(out.list)
       THEN startFailed(i, "noDefaultDevice")
       ELSE /\ capturePending' =
                  [capturePending EXCEPT
                      ![i].phase = "getDevices",
                      ![i].deviceId = FirstDefault(out.list, MICROPHONE)[1].id]
            /\ captureLast' = "defaultDeviceFound"
            /\ UNCHANGED captureEvents
    /\ UNCHANGED <<isCapturing, currentSession, nativeInitialized, intervals,
                   dmInitialized, clock, providerCalls, sessionIds, used, disposed>>

\* `await this.getDevices()` returns: the device is validated, the format
\* set, and nativeCapture.start(options) called up to its await of the addon
devicesReturn(i, out) ==
    /\ UNCHANGED <<vars, otherVars>>
    /\ capturePending[i].phase = "getDevices"
    /\ cachedDevices' = out.cache
    /\ looked' = [phase |-> "getDevices", deviceId |-> capturePending[i].deviceId,
                  list |-> out.list]
    /\ IF DeviceMissing(out.list, capturePending[i].deviceId)
       THEN /\ startFailed(i, "deviceNotFound")
            /\ UNCHANGED providerCalls
       ELSE IF ~nativeInitialized
       THEN /\ startFailed(i, "nativeNotInitialized")
            /\ UNCHANGED providerCalls
       ELSE /\ capturePending' =
                  [capturePending EXCEPT
                      ![i].phase = "nativeStart",
                      ![i].called = TRUE,
                      ![i].format = IF @ = <<>> THEN <<DefaultFormat>> ELSE @]
            /\ providerCalls' = [providerCalls EXCEPT !.start = @ + 1]
            /\ captureLast' = "nativeStartCalled"
            /\ UNCHANGED captureEvents
    /\ UNCHANGED <<isCapturing, currentSession, nativeInitialized, intervals,
                   dmInitialized, clock, sessionIds, used, disposed>>

\* mutant of NewSession: the record created with its flag down
NewSessionInactive(call, now) ==
    [id |-> now, deviceId |-> call.deviceId, format |-> call.format[1],
     startTime |-> now, isActive |-> FALSE,
     stats |-> [sampleRate |-> Field(call.format[1], "sampleRate"),
                channels |-> Field(call.format[1], "channels")],
     requested |-> call.requested]

\* the session record startCapture creates
NewSession(call, now) ==
    [id |-> now, deviceId |-> call.deviceId, format |-> call.format[1],
     startTime |-> now, isActive |-> TRUE,
     stats |-> [sampleRate |-> Field(call.format[1], "sampleRate"),
                channels |-> Field(call.format[1], "channels")],
     requested |-> call.requested]

\* the addon's start() resolves: NativeAudioCapture.start() sets the timer of
\* simulateAudioData (which clears itself if the addon has been disposed of)
\* and startCapture creates the session, sets the flag and emits start
nativeStartReturns(i, now) ==
    /\ UNCHANGED <<vars, otherVars>>
    /\ capturePending[i].phase = "nativeStart"
    /\ intervals' = IF nativeInitialized THEN intervals + 1 ELSE intervals
    /\ clock' = now
    /\ currentSession' = <<NewSession(capturePending[i], now)>>
    /\ sessionIds' = Append(sessionIds,
          [id |-> now,
           stops |-> Cardinality({j \in DOMAIN captureEvents :
                                    captureEvents[j].type = "stop"})])
    /\ isCapturing' = TRUE
    /\ captureEvents' = Append(captureEvents,
          CaptureEvent("start", "", capturePending[i].deviceId))
    /\ capturePending' = Without(capturePending, i)
    /\ captureLast' = "nativeStartReturns"
    /\ UNCHANGED <<nativeInitialized, dmInitialized, cachedDevices,
                   providerCalls, used, disposed>>
    /\ looked' = NotLooked

\* what a failure of the addon puts out: the catch of NativeAudioCapture emits
\* `error`, which the constructor's listener forwards, and the catch of the
\* AudioCapture method emits its own
EmittedOnAddonFailure(code) ==
    <<CaptureEvent("error", code, ""), CaptureEvent("error", code, "")>>

\* the addon's start() fails
nativeStartFails(i) ==
    /\ UNCHANGED <<vars, otherVars>>
    /\ capturePending[i].phase = "nativeStart"
    /\ captureEvents' = captureEvents \o EmittedOnAddonFailure("START_FAILED")
    /\ capturePending' = Without(capturePending, i)
    /\ captureLast' = "nativeStartFails"
    /\ UNCHANGED <<isCapturing, currentSession, nativeInitialized, intervals,
                   dmInitialized, cachedDevices, clock, providerCalls, sessionIds,
                   used, disposed>>
    /\ looked' = NotLooked

\* stopCapture() past its test, up to the await of nativeCapture.stop(), which
\* calls the addon unless the NativeAudioCapture is not initialized
captureStopBody(L, op) ==
    /\ used.stops < L.stops
    /\ Len(capturePending) < L.pending
    /\ capturePending' = Append(capturePending,
          Suspended(op, "nativeStop", nativeInitialized, "", <<>>, <<>>))
    /\ providerCalls' =
          [providerCalls EXCEPT !.stop = IF nativeInitialized THEN @ + 1 ELSE @]
    /\ used' = [used EXCEPT !.stops = @ + 1]
    /\ captureLast' = op
    /\ UNCHANGED <<isCapturing, currentSession, nativeInitialized, intervals,
                   dmInitialized, cachedDevices, clock, captureEvents, sessionIds, disposed>>
    /\ looked' = NotLooked

\* stopCapture()
stopCapture(L) ==
    /\ UNCHANGED <<vars, otherVars>>
    /\ IF NotCapturing
       THEN /\ captureLast' = "stopCaptureReturns"
            /\ looked' = NotLooked
            /\ UNCHANGED <<isCapturing, currentSession, nativeInitialized, intervals,
                           dmInitialized, cachedDevices, clock, capturePending,
                           captureEvents, providerCalls, sessionIds, used,
                           disposed>>
       ELSE captureStopBody(L, "stopCapture")

\* dispose() up to its first await: of stopCapture() when capturing, else of
\* nativeCapture.dispose()
disposeCapture(L) ==
    /\ UNCHANGED <<vars, otherVars>>
    /\ IF isCapturing
       THEN captureStopBody(L, "dispose")
       ELSE /\ Len(capturePending) < L.pending
            /\ capturePending' = Append(capturePending,
                  Suspended("dispose", "nativeDispose", nativeInitialized, "", <<>>, <<>>))
            /\ captureLast' = "dispose"
            /\ looked' = NotLooked
            /\ UNCHANGED <<isCapturing, currentSession, nativeInitialized, intervals,
                           dmInitialized, cachedDevices, clock, captureEvents,
                           providerCalls, sessionIds, used, disposed>>

\* a stopCapture that destroyed the session record instead of marking it
StoppedSessionNulled ==
    <<>>

\* currentSession once stopCapture has marked it (stats.duration, which no
\* method reads, is left out of the session record)
StoppedSession ==
    IF currentSession = <<>> THEN <<>>
    ELSE <<[currentSession[1] EXCEPT !.isActive = FALSE]>>

\* nativeCapture.stop() resolves: stopCapture marks the session, clears the
\* flag and emits stop; dispose() goes on to nativeCapture.dispose()
nativeStopReturns(i) ==
    /\ UNCHANGED <<vars, otherVars>>
    /\ capturePending[i].phase = "nativeStop"
    /\ currentSession' = StoppedSession
    /\ isCapturing' = FALSE
    /\ captureEvents' = Append(captureEvents, CaptureEvent("stop", "", ""))
    /\ IF capturePending[i].op = "dispose"
       THEN capturePending' =
               [capturePending EXCEPT ![i].phase = "nativeDispose",
                                      ![i].called = nativeInitialized]
       ELSE capturePending' = Without(capturePending, i)
    /\ captureLast' = "nativeStopReturns"
    /\ UNCHANGED <<nativeInitialized, intervals, dmInitialized, cachedDevices,
                   clock, providerCalls, sessionIds, used, disposed>>
    /\ looked' = NotLooked

\* the addon's stop() fails: stopCapture (and a dispose() awaiting it) rejects
nativeStopFails(i) ==
    /\ UNCHANGED <<vars, otherVars>>
    /\ capturePending[i].phase = "nativeStop"
    /\ capturePending[i].called
    /\ captureEvents' = captureEvents \o EmittedOnAddonFailure("STOP_FAILED")
    /\ capturePending' = Without(capturePending, i)
    /\ captureLast' = "nativeStopFails"
    /\ UNCHANGED <<isCapturing, currentSession, nativeInitialized, intervals,
                   dmInitialized, cachedDevices, clock, providerCalls, sessionIds,
                   used, disposed>>
    /\ looked' = NotLooked

\* nativeCapture.dispose() resolves (the addon's dispose() having succeeded or,
\* logged only, failed), then deviceManager.dispose() likewise, and dispose()
\* resolves
nativeDisposeReturns(i, ok, dmOk) ==
    /\ UNCHANGED <<vars, otherVars>>
    /\ capturePending[i].phase = "nativeDispose"
    /\ nativeInitialized' = (nativeInitialized /\ ~(capturePending[i].called /\ ok))
    /\ intervals' = IF nativeInitialized' THEN intervals ELSE 0
    /\ dmInitialized' = (dmInitialized /\ ~dmOk)
    /\ disposed' = TRUE
    /\ capturePending' = Without(capturePending, i)
    /\ captureLast' = "disposeReturns"
    /\ UNCHANGED <<isCapturing, currentSession, cachedDevices, clock, captureEvents,
                   providerCalls, sessionIds, used>>
    /\ looked' = NotLooked

\* a timer of simulateAudioData fires: the listener of the constructor
\* forwards the frame as a data event
nativeData(L) ==
    /\ UNCHANGED <<vars, otherVars>>
    /\ intervals > 0
    /\ nativeInitialized
    /\ used.data < L.data
    /\ captureEvents' = Append(captureEvents, CaptureEvent("data", "", ""))
    /\ used' = [used EXCEPT !.data = @ + 1]
    /\ captureLast' = "nativeData"
    /\ UNCHANGED <<isCapturing, currentSession, nativeInitialized, intervals,
                   dmInitialized, cachedDevices, clock, capturePending,
                   providerCalls, sessionIds, disposed>>
    /\ looked' = NotLooked

\* the values Date.now() can return when startCapture creates the session:
\* that of the last reading, or a later one
Now == {clock, clock + 1}

CaptureNext ==
    \/ \E deviceId \in DeviceIds, format \in Formats :
          startCapture(CaptureLimits, deviceId, format)
    \/ \E i \in DOMAIN capturePending, out \in LookupOutcomes :
          defaultDeviceReturns(i, out)
    \/ \E i \in DOMAIN capturePending, out \in LookupOutcomes : devicesReturn(i, out)
    \/ \E i \in DOMAIN capturePending, now \in Now :
          nativeStartReturns(i, now)
    \/ \E i \in DOMAIN capturePending : nativeStartFails(i)
    \/ stopCapture(CaptureLimits)
    \/ disposeCapture(CaptureLimits)
    \/ \E i \in DOMAIN capturePending : nativeStopReturns(i)
    \/ \E i \in DOMAIN capturePending : nativeStopFails(i)
    \/ \E i \in DOMAIN capturePending, ok \in BOOLEAN, dmOk \in BOOLEAN :
          nativeDisposeReturns(i, ok, dmOk)
    \/ nativeData(CaptureLimits)

SpecCapture == Init /\ [][CaptureNext]_captureVars

RaceNext ==
    \/ \E deviceId \in DeviceIds, format \in Formats :
          startCapture(RaceLimits, deviceId, format)
    \/ \E i \in DOMAIN capturePending, out \in LookupOutcomes :
          defaultDeviceReturns(i, out)
    \/ \E i \in DOMAIN capturePending, out \in LookupOutcomes : devicesReturn(i, out)
    \/ \E i \in DOMAIN capturePending, now \in Now :
          nativeStartReturns(i, now)
    \/ \E i \in DOMAIN capturePending : nativeStartFails(i)
    \/ stopCapture(RaceLimits)
    \/ disposeCapture(RaceLimits)
    \/ \E i \in DOMAIN capturePending : nativeStopReturns(i)
    \/ \E i \in DOMAIN capturePending : nativeStopFails(i)
    \/ \E i \in DOMAIN capturePending, ok \in BOOLEAN, dmOk \in BOOLEAN :
          nativeDisposeReturns(i, ok, dmOk)
    \/ nativeData(RaceLimits)

SpecCaptureRace == Init /\ [][RaceNext]_captureVars

\* racing calls again, with more starts and fewer calls of the other kinds
ActiveNext ==
    \/ \E deviceId \in DeviceIds, format \in Formats :
          startCapture(ActiveLimits, deviceId, format)
    \/ \E i \in DOMAIN capturePending, out \in LookupOutcomes :
          defaultDeviceReturns(i, out)
    \/ \E i \in DOMAIN capturePending, out \in LookupOutcomes : devicesReturn(i, out)
    \/ \E i \in DOMAIN capturePending, now \in Now :
          nativeStartReturns(i, now)
    \/ \E i \in DOMAIN capturePending : nativeStartFails(i)
    \/ stopCapture(ActiveLimits)
    \/ disposeCapture(ActiveLimits)
    \/ \E i \in DOMAIN capturePending : nativeStopReturns(i)
    \/ \E i \in DOMAIN capturePending : nativeStopFails(i)
    \/ \E i \in DOMAIN capturePending, ok \in BOOLEAN, dmOk \in BOOLEAN :
          nativeDisposeReturns(i, ok, dmOk)
    \/ nativeData(ActiveLimits)

SpecCaptureActive == Init /\ [][ActiveNext]_captureVars

\* ------------------------------------------ what the capture claims speak of
CaptureEventsOf(type) == {j \in DOMAIN captureEvents : captureEvents[j].type = type}

\* the events a capture step adds
NewCaptureEvents ==
    {captureEvents'[j] : j \in (Len(captureEvents) + 1)..Len(captureEvents')}

\* the startCapture() calls in flight
StartsInFlight ==
    {i \in DOMAIN capturePending : capturePending[i].op = "startCapture"}

\* C11: a startCapture() call made while the capture is active throws (the
\* already-running error) and does nothing else: the addon's start is not
\* called, no event is emitted, and the session record, isActive() and the
\* calls in flight stay as they are.
C11_AlreadyRunning ==
    [][(captureLast' \in {"startCapture", "startCaptureThrows"} /\ isCapturing)
          => /\ captureLast' = "startCaptureThrows"
             /\ UNCHANGED <<isCapturing, currentSession, capturePending,
                            captureEvents, providerCalls, sessionIds,
                            nativeInitialized, intervals>>]_captureVars

\* C11 witness: startCapture() has thrown with the capture active and a
\* session record present.
C11_Witness ==
    /\ captureLast = "startCaptureThrows"
    /\ isCapturing
    /\ currentSession # <<>>
    /\ currentSession[1].isActive

\* C12 (as claimed): no startCapture() is let in while another is in flight,
\* the addon's start is not awaited twice at once, and no two start events
\* are emitted without a stop event between them.
C12_OneStartAtATime ==
    /\ Cardinality(StartsInFlight) <= 1
    /\ Cardinality({i \in StartsInFlight :
                      capturePending[i].phase = "nativeStart"}) <= 1
    /\ \A i, j \in CaptureEventsOf("start") :
          i < j => \E k \in CaptureEventsOf("stop") : i < k /\ k < j

\* C13 (as claimed): no data event follows a stop event unless a start event
\* has been emitted between the two.
C13_NoDataAfterStop ==
    \A i \in CaptureEventsOf("stop"), j \in CaptureEventsOf("data") :
        i < j => \E k \in CaptureEventsOf("start") : i < k /\ k < j

\* C14 (as claimed): a session created after a stop event has an id that
\* differs from the id of every session created before that stop.
C14_SessionIdsDiffer ==
    \A i, j \in DOMAIN sessionIds :
        (i < j /\ sessionIds[i].stops < sessionIds[j].stops)
        => sessionIds[i].id # sessionIds[j].id

\* C15 (as claimed): when the addon's start fails, the step emits exactly one
\* event, an error event with code START_FAILED, and leaves isActive() and the
\* session record as they were.
C15_StartFailure ==
    [][captureLast' = "nativeStartFails"
          => /\ Len(captureEvents') = Len(captureEvents) + 1
             /\ captureEvents'[Len(captureEvents')].type = "error"
             /\ captureEvents'[Len(captureEvents')].code = "START_FAILED"
             /\ UNCHANGED <<isCapturing, currentSession>>]_captureVars

\* the step has ended a startCapture() call in its catch: the call is gone,
\* the addon's start was not called, isActive() and the session record are
\* as they were
StartRejected ==
    /\ \E i \in DOMAIN capturePending :
          /\ capturePending[i].op = "startCapture"
          /\ capturePending' = Without(capturePending, i)
    /\ UNCHANGED <<providerCalls, isCapturing, currentSession, sessionIds>>
    /\ CaptureEventsOf("start") = {j \in DOMAIN captureEvents' :
                                      captureEvents'[j].type = "start"}

\* C16: when the lookup of the default device returns a list with no default
\* microphone, or the lookup of the devices returns a list without the
\* requested id, startCapture() fails there: the addon's start is not called
\* for it and the capture stays as it was.
C16_DeviceResolution ==
    [][/\ (/\ looked'.phase = "getDefaultDevice"
            /\ ~\E i \in DOMAIN looked'.list :
                   /\ looked'.list[i].type = "microphone"
                   /\ looked'.list[i].isDefault)
          => StartRejected
       /\ (/\ looked'.phase = "getDevices"
            /\ \A i \in DOMAIN looked'.list :
                   looked'.list[i].id # looked'.deviceId)
          => StartRejected]_captureVars

\* C16 witness: one of the two failures has just happened: a lookup of the
\* default device returned a default device that is no microphone, or a
\* lookup of the devices returned a list that is not empty and lacks the
\* requested id.
C16_Witness ==
    \/ /\ captureLast = "noDefaultDevice"
       /\ \E i \in DOMAIN looked.list : looked.list[i].isDefault
       /\ providerCalls.start = 0
    \/ /\ captureLast = "deviceNotFound"
       /\ looked.deviceId = "ghost"
       /\ looked.list # <<>>
       /\ providerCalls.start = 0

\* C17 (as claimed): the format of the session has every field, each with
\* the caller's value if the caller gave one and the default value if not,
\* and the stats carry its sample rate and channels.
C17_FormatMerged ==
    currentSession # <<>> =>
        LET session1 == currentSession[1]
            given == session1.requested
        IN  /\ DOMAIN session1.format = FormatFields
            /\ \A k \in FormatFields :
                  k \in DOMAIN session1.format =>
                     session1.format[k] =
                        (IF given # <<>> /\ k \in DOMAIN given[1]
                         THEN given[1][k] ELSE DefaultFormat[k])
            /\ session1.stats.sampleRate = Field(session1.format, "sampleRate")
            /\ session1.stats.sampleRate # <<>>
            /\ session1.stats.channels # <<>>

\* C18: a stopCapture() call made while the capture is not active returns
\* and changes nothing: the addon's stop is not called, no event is emitted,
\* and the session record, isActive() and the calls in flight stay as they
\* are.
C18_StopWhenIdle ==
    [][(captureLast' \in {"stopCapture", "stopCaptureReturns"} /\ ~isCapturing)
          => /\ captureLast' = "stopCaptureReturns"
             /\ UNCHANGED <<isCapturing, currentSession, capturePending,
                            captureEvents, providerCalls, sessionIds,
                            nativeInitialized, intervals>>]_captureVars

\* C18 witness: stopCapture() has returned at once on a capture that had
\* been started and stopped, its session record still there.
C18_Witness ==
    /\ captureLast = "stopCaptureReturns"
    /\ ~isCapturing
    /\ currentSession # <<>>
    /\ ~currentSession[1].isActive
    /\ CaptureEventsOf("stop") # {}

\* C19 (as claimed): once a dispose() call has resolved, no call is let in
\* or returns normally: startCapture(), stopCapture() and dispose() fail.
C19_DisposedRejectsCalls ==
    disposed =>
        captureLast \notin {"startCapture", "stopCapture", "stopCaptureReturns",
                            "dispose"}

\* C20 (as claimed): when the addon has reported an error to an active
\* capture (here the failure of its stop), the capture is no longer active.
C20_ErrorLeavesActive ==
    captureLast = "nativeStopFails" => ~isCapturing

\* ---------------------------------------------------------------------
\* The session getters of AudioCapture (null is the empty sequence)

\* getCurrentSession(): the session field as it is
getCurrentSession ==
    currentSession

\* getStats(): this.currentSession?.stats || null
getStats ==
    IF currentSession = <<>> THEN <<>> ELSE <<currentSession[1].stats>>

CacheValid(dm, now) ==
    Len(dm.cachedDevices) > 0 /\ now - dm.lastRefreshTime < CACHE_DURATION

\* devices.map(device => this.processDevice(device))
ProcessedList(raw) ==
    [k \in DOMAIN raw |-> processDevice(raw[k])]

\* a catch of getDevices() that cached the failed attempt as a result
AfterFailureCached(i) ==
    [deviceManager EXCEPT !.cachedDevices = <<>>,
                          !.lastRefreshTime = dmPending[i].now]

\* the object after the catch of getDevices(): it logs and returns []
AfterFailure(i) ==
    deviceManager

\* the body of getDevices(), run on the object dm at the current time: the
\* cached list, or [] at once when the NativeAudioCapture is not initialized
\* (its getDevices() throws before calling the addon), or a call of the addon
lookupDevices(L, op, dm) ==
    /\ dmUsed.lookups < L.lookups
    /\ dmUsed' = [dmUsed EXCEPT !.lookups = @ + 1]
    /\ deviceManager' = dm
    /\ dmClock' = dmClock
    /\ IF CacheValid(dm, dmClock)
       THEN /\ dmLast' = [step |-> op, after |-> dmLast.step, now |-> dmClock,
                          returned |-> <<dm.cachedDevices>>,
                          provider |-> FALSE, rejected |-> FALSE]
            /\ UNCHANGED <<dmPending, dmCalls>>
       ELSE IF ~dm.isInitialized
       THEN /\ dmLast' = [step |-> op, after |-> dmLast.step, now |-> dmClock,
                          returned |-> << <<>> >>,
                          provider |-> FALSE, rejected |-> FALSE]
            /\ UNCHANGED <<dmPending, dmCalls>>
       ELSE /\ Len(dmPending) < L.pending
            /\ dmPending' = Append(dmPending, [op |-> op, now |-> dmClock])
            /\ dmCalls' = dmCalls + 1
            /\ dmLast' = [step |-> op, after |-> dmLast.step, now |-> dmClock,
                          returned |-> <<>>,
                          provider |-> TRUE, rejected |-> FALSE]

\* DeviceManager.getDevices()
getDevices(L) ==
    /\ UNCHANGED notDevices
    /\ lookupDevices(L, "getDevices", deviceManager)
    /\ UNCHANGED dmSnapshot

\* DeviceManager.refreshDevices(): empties the cache, then getDevices()
refreshDevices(L) ==
    /\ UNCHANGED notDevices
    /\ lookupDevices(L, "refreshDevices",
                     [deviceManager EXCEPT !.cachedDevices = <<>>,
                                           !.lastRefreshTime = 0])
    /\ dmSnapshot' = <<>>

\* the addon's getDevices() resolves with the list raw: the processed list
\* is cached under the time read when the call was made, and returned
devicesEnumerated(i, raw) ==
    /\ UNCHANGED notDevices
    /\ dmPending[i].op \in {"getDevices", "refreshDevices"}
    /\ deviceManager' =
          [deviceManager EXCEPT !.cachedDevices = ProcessedList(raw),
                                !.lastRefreshTime = dmPending[i].now]
    /\ dmSnapshot' = <<[time |-> dmClock, list |-> ProcessedList(raw)]>>
    /\ dmLast' = [NoStep EXCEPT !.step = "devicesEnumerated",
                                !.now = dmPending[i].now,
                                !.returned = <<ProcessedList(raw)>>]
    /\ dmPending' = Without(dmPending, i)
    /\ UNCHANGED <<dmClock, dmCalls, dmUsed>>

\* the addon's getDevices() rejects: NativeAudioCapture rethrows, and the
\* catch of DeviceManager.getDevices() returns []
enumerationFails(i) ==
    /\ UNCHANGED notDevices
    /\ dmPending[i].op \in {"getDevices", "refreshDevices"}
    /\ deviceManager' = AfterFailure(i)
    /\ dmLast' = [NoStep EXCEPT !.step = "enumerationFails",
                                !.now = dmPending[i].now,
                                !.returned = << <<>> >>]
    /\ dmPending' = Without(dmPending, i)
    /\ UNCHANGED <<dmClock, dmCalls, dmSnapshot, dmUsed>>

\* DeviceManager.dispose(): NativeAudioCapture.dispose() returns at once when
\* it is not initialized, else it calls the addon
disposeDevices(L) ==
    /\ UNCHANGED notDevices
    /\ dmUsed.disposes < L.disposes
    /\ dmUsed' = [dmUsed EXCEPT !.disposes = @ + 1]
    /\ IF deviceManager.isInitialized
       THEN /\ Len(dmPending) < L.pending
            /\ dmPending' = Append(dmPending, [op |-> "dispose", now |-> dmClock])
       ELSE dmPending' = dmPending
    /\ dmLast' = [NoStep EXCEPT !.step = "dispose", !.now = dmClock]
    /\ UNCHANGED <<deviceManager, dmClock, dmCalls, dmSnapshot>>

\* the addon's dispose() resolves (ok) or rejects: the rejection is logged
devicesDisposed(i, ok) ==
    /\ UNCHANGED notDevices
    /\ dmPending[i].op = "dispose"
    /\ deviceManager' =
          [deviceManager EXCEPT !.isInitialized = @ /\ ~ok]
    /\ dmLast' = [NoStep EXCEPT !.step = "devicesDisposed", !.now = dmClock]
    /\ dmPending' = Without(dmPending, i)
    /\ UNCHANGED <<dmClock, dmCalls, dmSnapshot, dmUsed>>

\* the steps of the clock: one millisecond, or one less than CACHE_DURATION
Delays == {1, CACHE_DURATION - 1}

\* time passes between two turns of the event loop
timePasses(L, d) ==
    /\ UNCHANGED notDevices
    /\ dmUsed.ticks < L.ticks
    /\ dmUsed' = [dmUsed EXCEPT !.ticks = @ + 1]
    /\ dmClock' = dmClock + d
    /\ UNCHANGED <<deviceManager, dmPending, dmCalls, dmSnapshot, dmLast>>

DevicesNext ==
    \/ getDevices(DeviceLimits)
    \/ refreshDevices(DeviceLimits)
    \/ \E i \in DOMAIN dmPending, raw \in Catalogs : devicesEnumerated(i, raw)
    \/ \E i \in DOMAIN dmPending : enumerationFails(i)
    \/ disposeDevices(DeviceLimits)
    \/ \E i \in DOMAIN dmPending, ok \in BOOLEAN : devicesDisposed(i, ok)
    \/ \E d \in Delays : timePasses(DeviceLimits, d)

SpecDevices == Init /\ [][DevicesNext]_dmVars

\* C22: after an enumeration has succeeded, every getDevices() call made less
\* than CACHE_DURATION later returns that snapshot without calling the addon,
\* whatever the list (the empty one included), and a call made CACHE_DURATION
\* or more later calls the addon again.
C22_CacheWindow ==
    (dmLast.step = "getDevices" /\ dmSnapshot # <<>>) =>
        IF dmLast.now - dmSnapshot[1].time < CACHE_DURATION
        THEN /\ ~dmLast.provider
             /\ dmLast.returned = <<dmSnapshot[1].list>>
        ELSE deviceManager.isInitialized => dmLast.provider

\* C23: when the addon's enumeration fails, the getDevices() or
\* refreshDevices() call resolves to the empty list, it does not reject, and
\* the cache and its time stay as they were; the next getDevices() call, made
\* on a manager that is not disposed and with no enumeration that succeeded
\* less than CACHE_DURATION before, calls the addon again.
C23_FailureNotCached ==
    [][ /\ (Len(dmPending') < Len(dmPending) /\ dmLast'.step = "enumerationFails")
           => /\ dmLast'.returned = << <<>> >>
              /\ ~dmLast'.rejected
              /\ deviceManager'.cachedDevices = deviceManager.cachedDevices
              /\ deviceManager'.lastRefreshTime = deviceManager.lastRefreshTime
        /\ ( /\ dmLast'.step = "getDevices"
             /\ dmLast'.after = "enumerationFails"
             /\ dmUsed'.lookups = dmUsed.lookups + 1
             /\ deviceManager.isInitialized
             /\ \/ dmSnapshot = <<>>
                \/ dmClock - dmSnapshot[1].time >= CACHE_DURATION )
           => /\ dmLast'.provider
              /\ dmCalls' = dmCalls + 1
      ]_dmVars

\* an enumeration filled the cache, a later one failed, and the getDevices()
\* call that followed the failure has gone to the addon
C23_Witness ==
    /\ dmLast.step = "getDevices"
    /\ dmLast.after = "enumerationFails"
    /\ dmLast.provider
    /\ deviceManager.cachedDevices # <<>>

\* ---------------------------------------------------------------------
\* Part 4: AudioProcessor

\* a stage object that gives `enabled` only
EnabledOnly(b) ==
    [enabled |-> b]

\* partial configurations that set the three switches, one for each of the
\* eight combinations
SwitchPartials ==
    { [echoCancellation |-> EnabledOnly(e[1]),
       noiseSuppression |-> EnabledOnly(e[2]),
       automaticGainControl |-> EnabledOnly(e[3])] : e \in [1..3 -> BOOLEAN] }

\* partial configurations that give one field of the configuration
FieldPartials ==
    << [echoCancellation |-> EnabledOnly(FALSE)],
       [noiseSuppression |-> [enabled |-> TRUE, level |-> "high"]],
       [simdOptimization |-> FALSE] >>

ProcessorLimits ==
    [frames |-> MaxProcessorFrames, pending |-> MaxProcessorPending,
     configures |-> MaxConfigures, lifecycle |-> MaxLifecycle]

StageLimits ==
    [frames |-> StageFrames, pending |-> StagePending,
     configures |-> StageConfigures, lifecycle |-> StageLifecycle]

ConfigLimits ==
    [frames |-> ConfigFrames, pending |-> ConfigPending,
     configures |-> ConfigConfigures, lifecycle |-> ConfigLifecycle,
     reads |-> ConfigReads, writes |-> ConfigWrites]

\* the frames passed to processAudio()
FrameInputs == {<<1>>, <<2, 0>>}

\* { ...a, ...b }: the fields of b over those of a, one level deep
Spread(a, b) ==
    [k \in DOMAIN a \cup DOMAIN b |-> IF k \in DOMAIN b THEN b[k] ELSE a[k]]

\* a test that applies automatic gain control whatever its switch
StageEnabledOrGain(stage) ==
    objects[processor.config[stage]].enabled \/ stage = AutomaticGainControl

\* `this.config.<stage>?.enabled`
StageEnabled(stage) ==
    objects[processor.config[stage]].enabled

\* the order in which applyProcessing tests and applies the stages, with
\* noise suppression and echo cancellation exchanged
StageOrderExchanged ==
    <<NoiseSuppression, EchoCancellation, AutomaticGainControl>>

\* the order in which applyProcessing tests and applies the stages
StageOrder ==
    <<EchoCancellation, NoiseSuppression, AutomaticGainControl>>

\* the first stage at position k or later that is enabled now, 0 if none
NextStage(k) ==
    LET on == {j \in k..Len(StageOrder) : StageEnabled(StageOrder[j])}
    IN  IF on = {} THEN 0 ELSE CHOOSE j \in on : \A h \in on : j <= h

\* what the DSP provider makes of a frame, one function for each stage, no
\* two of which commute
Transform(stage, data) ==
    [k \in DOMAIN data |->
        CASE stage = EchoCancellation -> data[k] + 1
          [] stage = NoiseSuppression -> 2 * data[k]
          [] stage = AutomaticGainControl -> 3 * data[k] + 1]

ProcessorEvent(type, frame, data, samples, code) ==
    [type |-> type, frame |-> frame, data |-> data, samples |-> samples,
     code |-> code]

\* processAudio after applyProcessing has resolved: processed, then stats
\* with samplesProcessed: audioData.length
EmittedOnProcessed(frame, input, data) ==
    << ProcessorEvent("processed", frame, data, 0, ""),
       ProcessorEvent("stats", frame, <<>>, Len(input), "") >>

\* `!this.isInitialized` of processAudio, left out
NotInitializedNever ==
    FALSE

\* `!this.isInitialized` of processAudio
NotInitialized ==
    ~processor.isInitialized

\* a catch of processAudio that also gave up the processor
AfterStageFailureReset ==
    [processor EXCEPT !.isInitialized = FALSE]

\* the processor after the catch of processAudio: it emits and rethrows
AfterStageFailure ==
    processor

\* where a stage stands in the order of applyProcessing
StagePosition(stage) ==
    CHOOSE j \in DOMAIN StageOrder : StageOrder[j] = stage

\* applyProcessing from the test of the stage at position k on, for the call
\* of frame `frame` holding processedData `data`: the next enabled stage is
\* called with it, or none is left and processAudio emits the frame
continueProcessing(rest, frame, input, data, k) ==
    LET j == NextStage(k)
    IN  IF j = 0
        THEN /\ apPending' = rest
             /\ apEmitted' = EmittedOnProcessed(frame, input, data)
        ELSE /\ apPending' = Append(rest, [frame |-> frame, input |-> input,
                                           data |-> data,
                                           stage |-> StageOrder[j]])
             /\ apEmitted' = <<>>

\* AudioProcessor.initialize()
processorInitialize(L) ==
    /\ UNCHANGED notProcessor
    /\ apUsed.lifecycle < L.lifecycle
    /\ apUsed' = [apUsed EXCEPT !.lifecycle = @ + 1]
    /\ processor' = [processor EXCEPT !.isInitialized = TRUE]
    /\ apLast' = [NoProcessorStep EXCEPT !.step = "initialize"]
    /\ apEmitted' = <<>>
    /\ UNCHANGED <<objects, apPending, returned>>

\* AudioProcessor.stop()
processorStop(L) ==
    /\ UNCHANGED notProcessor
    /\ apUsed.lifecycle < L.lifecycle
    /\ apUsed' = [apUsed EXCEPT !.lifecycle = @ + 1]
    /\ processor' = [processor EXCEPT !.isProcessing = FALSE]
    /\ apLast' = [NoProcessorStep EXCEPT !.step = "stop"]
    /\ apEmitted' = <<>>
    /\ UNCHANGED <<objects, apPending, returned>>

\* AudioProcessor.dispose(): stop(), then isInitialized = false
processorDispose(L) ==
    /\ UNCHANGED notProcessor
    /\ apUsed.lifecycle < L.lifecycle
    /\ apUsed' = [apUsed EXCEPT !.lifecycle = @ + 1]
    /\ processor' = [processor EXCEPT !.isProcessing = FALSE,
                                      !.isInitialized = FALSE]
    /\ apLast' = [NoProcessorStep EXCEPT !.step = "dispose"]
    /\ apEmitted' = <<>>
    /\ UNCHANGED <<objects, apPending, returned>>

\* AudioProcessor.processAudio(audioData): throws while not initialized,
\* else copies the frame (new Float32Array(audioData), sample for sample)
\* and runs applyProcessing up to its first stage call
processorProcessAudio(L, audioData) ==
    /\ UNCHANGED notProcessor
    /\ apUsed.frames < L.frames
    /\ IF NotInitialized
       THEN /\ apLast' = [NoProcessorStep EXCEPT
                             !.step = "processAudio",
                             !.threw = "Audio processor not initialized",
                             !.input = audioData]
            /\ apEmitted' = <<>>
            /\ UNCHANGED <<processor, apPending, apUsed>>
       ELSE /\ NextStage(1) # 0 => Len(apPending) < L.pending
            /\ processor' = [processor EXCEPT !.isProcessing = TRUE]
            /\ apUsed' = [apUsed EXCEPT !.frames = @ + 1]
            /\ continueProcessing(apPending, apUsed.frames + 1, audioData,
                                  audioData, 1)
            /\ apLast' = [NoProcessorStep EXCEPT
                             !.step = "processAudio",
                             !.frame = apUsed.frames + 1,
                             !.input = audioData, !.data = audioData]
    /\ UNCHANGED <<objects, returned>>

\* a stage call resolves, with its input as it was (the placeholder) or with
\* the provider's transform of it: applyProcessing goes on
stageReturns(i, transformed) ==
    /\ UNCHANGED notProcessor
    /\ LET call == apPending[i]
           out == IF transformed THEN Transform(call.stage, call.data)
                  ELSE call.data
       IN  /\ continueProcessing(Without(apPending, i), call.frame, call.input,
                                 out, StagePosition(call.stage) + 1)
           /\ apLast' = [NoProcessorStep EXCEPT
                            !.step = "stageReturns", !.frame = call.frame,
                            !.input = call.input, !.data = out]
    /\ UNCHANGED <<processor, objects, returned, apUsed>>

\* a stage call rejects: the catch of processAudio emits PROCESSING_FAILED
\* and rethrows
stageFails(i) ==
    /\ UNCHANGED notProcessor
    /\ i \in DOMAIN apPending
    /\ apPending' = Without(apPending, i)
    /\ apEmitted' = <<ProcessorEvent("error", apPending[i].frame, <<>>, 0,
                                     "PROCESSING_FAILED")>>
    /\ processor' = AfterStageFailure
    /\ apUsed' = [apUsed EXCEPT !.failed = @ + 1]
    /\ apLast' = [NoProcessorStep EXCEPT
                     !.step = "stageFails", !.frame = apPending[i].frame,
                     !.threw = "stage", !.input = apPending[i].input,
                     !.data = apPending[i].data]
    /\ UNCHANGED <<objects, returned>>

\* the stage fields of a partial configuration, in the order of their keys
GivenStages(partial) ==
    LET Given(stage) == stage \in DOMAIN partial
    IN  SelectSeq(StageOrder, Given)

\* the partial configuration as the processor holds it: its stage objects on
\* the heap, from reference `base` + 1 on, and their references in the fields
Referenced(partial, base) ==
    [k \in DOMAIN partial |->
        IF k \in Stages
        THEN base + CHOOSE j \in DOMAIN GivenStages(partial) :
                        GivenStages(partial)[j] = k
        ELSE partial[k]]

\* AudioProcessor.configure(config): this.config = {...this.config, ...config}
processorConfigure(L, partial) ==
    /\ UNCHANGED notProcessor
    /\ apUsed.configures < L.configures
    /\ apUsed' = [apUsed EXCEPT !.configures = @ + 1]
    /\ objects' = objects \o [j \in DOMAIN GivenStages(partial) |->
                                 partial[GivenStages(partial)[j]]]
    /\ processor' = [processor EXCEPT
                        !.config = Spread(@, Referenced(partial, Len(objects)))]
    /\ apLast' = [NoProcessorStep EXCEPT !.step = "configure",
                                         !.partial = <<partial>>]
    /\ apEmitted' = <<>>
    /\ UNCHANGED <<apPending, returned>>

\* AudioProcessor.getConfig(): { ...this.config }
processorGetConfig(L) ==
    /\ UNCHANGED notProcessor
    /\ apUsed.reads < L.reads
    /\ apUsed' = [apUsed EXCEPT !.reads = @ + 1]
    /\ returned' = <<Spread(<<>>, processor.config)>>
    /\ apLast' = [NoProcessorStep EXCEPT !.step = "getConfig"]
    /\ apEmitted' = <<>>
    /\ UNCHANGED <<processor, objects, apPending>>

\* the caller assigns to a stage object of the configuration it was given:
\* returned.<stage>.enabled = value
writeReturnedStage(L, stage, value) ==
    /\ UNCHANGED notProcessor
    /\ returned # <<>>
    /\ apUsed.writes < L.writes
    /\ apUsed' = [apUsed EXCEPT !.writes = @ + 1]
    /\ objects' = [objects EXCEPT ![returned[1][stage]].enabled = value]
    /\ apLast' = [NoProcessorStep EXCEPT !.step = "writeReturnedStage"]
    /\ apEmitted' = <<>>
    /\ UNCHANGED <<processor, apPending, returned>>

\* the caller assigns to a field of the configuration object it was given:
\* returned.simdOptimization = value
writeReturned(L, value) ==
    /\ UNCHANGED notProcessor
    /\ returned # <<>>
    /\ apUsed.writes < L.writes
    /\ apUsed' = [apUsed EXCEPT !.writes = @ + 1]
    /\ returned' = <<[returned[1] EXCEPT !.simdOptimization = value]>>
    /\ apLast' = [NoProcessorStep EXCEPT !.step = "writeReturned"]
    /\ apEmitted' = <<>>
    /\ UNCHANGED <<processor, objects, apPending>>

ProcessorNext ==
    \/ processorInitialize(ProcessorLimits)
    \/ processorStop(ProcessorLimits)
    \/ processorDispose(ProcessorLimits)
    \/ \E j \in DOMAIN FieldPartials :
          processorConfigure(ProcessorLimits, FieldPartials[j])
    \/ \E audioData \in FrameInputs :
          processorProcessAudio(ProcessorLimits, audioData)
    \/ \E i \in DOMAIN apPending, transformed \in BOOLEAN :
          stageReturns(i, transformed)
    \/ \E i \in DOMAIN apPending : stageFails(i)

SpecProcessor == Init /\ [][ProcessorNext]_apVars

StagesNext ==
    \/ processorInitialize(StageLimits)
    \/ \E partial \in SwitchPartials : processorConfigure(StageLimits, partial)
    \/ \E audioData \in FrameInputs :
          processorProcessAudio(StageLimits, audioData)
    \/ \E i \in DOMAIN apPending, transformed \in BOOLEAN :
          stageReturns(i, transformed)

SpecStages == Init /\ [][StagesNext]_apVars

ConfigNext ==
    \/ processorInitialize(ConfigLimits)
    \/ \E j \in DOMAIN FieldPartials :
          processorConfigure(ConfigLimits, FieldPartials[j])
    \/ processorGetConfig(ConfigLimits)
    \/ \E stage \in Stages, value \in BOOLEAN :
          writeReturnedStage(ConfigLimits, stage, value)
    \/ \E value \in BOOLEAN : writeReturned(ConfigLimits, value)
    \/ \E audioData \in FrameInputs :
          processorProcessAudio(ConfigLimits, audioData)
    \/ \E i \in DOMAIN apPending, transformed \in BOOLEAN :
          stageReturns(i, transformed)

SpecConfig == Init /\ [][ConfigNext]_apVars

\* ------------------------------------- what the processor claims speak of
\* a processAudio() call is made in this step
ProcessAudioCalled ==
    /\ apLast'.step = "processAudio"
    /\ <<apLast, apUsed>>' # <<apLast, apUsed>>

\* the call of frame f waiting for a stage, before and after the step
WaitingBefore(f) ==
    {j \in DOMAIN apPending : apPending[j].frame = f}

WaitingAfter(f) ==
    {j \in DOMAIN apPending' : apPending'[j].frame = f}

\* the configured switch of a stage, read from the configuration itself
SwitchedOn(stage) ==
    objects[processor.config[stage]].enabled

\* the order the claims give: echo cancellation, noise suppression,
\* automatic gain control
ClaimedOrder ==
    <<"echoCancellation", "noiseSuppression", "automaticGainControl">>

ClaimedPosition(stage) ==
    CHOOSE j \in 1..3 : ClaimedOrder[j] = stage

\* C24: a processAudio() call on a processor that is not initialized (never
\* initialized, or disposed) throws the not-initialized error and emits
\* nothing, and no stage is called; on an initialized one it is accepted.
C24_NotInitialized ==
    [][ ProcessAudioCalled =>
          IF ~processor.isInitialized
          THEN /\ apLast'.threw = "Audio processor not initialized"
               /\ apEmitted' = <<>>
               /\ apPending' = apPending
               /\ apUsed' = apUsed
               /\ processor' = processor
          ELSE /\ apLast'.threw = ""
               /\ apUsed'.frames = apUsed.frames + 1
      ]_apVars

\* a frame was accepted earlier, and after a dispose() a processAudio() call
\* has been rejected
C24_Witness ==
    /\ apLast.step = "processAudio"
    /\ apLast.threw = "Audio processor not initialized"
    /\ apUsed.frames > 0
    /\ apUsed.lifecycle > 1

\* C25: each step of a frame (its processAudio() call, or the return of one
\* of its stages) goes on to the next stage in the order echo cancellation,
\* noise suppression, automatic gain control that is enabled, skipping only
\* disabled ones and passing it what the previous stage returned (the frame
\* itself to the first); when no enabled stage is left the frame is emitted
\* as the last stage returned it.
C25_StageOrder ==
    [][ (apLast'.step \in {"processAudio", "stageReturns"}
           /\ apLast'.threw = "" /\ apLast' # apLast) =>
          LET f == apLast'.frame
              from == IF apLast'.step = "processAudio" THEN 0
                      ELSE ClaimedPosition(
                             apPending[CHOOSE j \in WaitingBefore(f) : TRUE].stage)
          IN  IF WaitingAfter(f) # {}
              THEN LET call == apPending'[CHOOSE j \in WaitingAfter(f) : TRUE]
                       to == ClaimedPosition(call.stage)
                   IN  /\ to > from
                       /\ SwitchedOn(call.stage)
                       /\ \A h \in (from + 1)..(to - 1) :
                              ~SwitchedOn(ClaimedOrder[h])
                       /\ call.data = apLast'.data
                       /\ apEmitted' = <<>>
              ELSE /\ \A h \in (from + 1)..3 : ~SwitchedOn(ClaimedOrder[h])
                   /\ Len(apEmitted') = 2
                   /\ apEmitted'[1].type = "processed"
                   /\ apEmitted'[1].data = apLast'.data
      ]_apVars

\* a frame has gone through all three stages, each of which transformed it
C25_Witness ==
    /\ apLast.step = "stageReturns"
    /\ Len(apEmitted) = 2
    /\ apEmitted[1].data = Transform("automaticGainControl",
                              Transform("noiseSuppression",
                                 Transform("echoCancellation", apLast.input)))
    /\ apEmitted[1].data # apLast.input

\* C26: with the three stages disabled, processAudio(frame) emits one
\* processed event (and one stats event) in the same step, its data equal to
\* the frame sample for sample, with no stage called and the caller's array
\* as it was passed.
C26_AllDisabled ==
    [][ (ProcessAudioCalled /\ processor.isInitialized
           /\ \A stage \in Stages : ~objects[processor.config[stage]].enabled) =>
          /\ Len(apEmitted') = 2
          /\ apEmitted'[1].type = "processed"
          /\ apEmitted'[2].type = "stats"
          /\ apEmitted'[1].data = apLast'.input
          /\ apEmitted'[2].samples = Len(apLast'.input)
          /\ apEmitted'[1].frame = apUsed.frames + 1
          /\ apPending' = apPending
      ]_apVars

\* a frame has been processed with the three stages disabled
C26_Witness ==
    /\ apLast.step = "processAudio"
    /\ apLast.threw = ""
    /\ \A stage \in Stages : ~objects[processor.config[stage]].enabled
    /\ Len(apEmitted) = 2
    /\ apEmitted[1].data = apLast.input

\* C27: when a stage call fails, the step emits one error event with code
\* PROCESSING_FAILED for that frame and nothing else, calls no further stage,
\* drops the frame's call (so that no later step can emit for it: every event
\* belongs to a call that was waiting or was made in that step) and leaves
\* the processor initialized; a processAudio() call after a failure is
\* accepted as long as the processor is initialized.
C27_StageFailure ==
    [][ /\ apLast'.step = "stageFails" /\ apUsed'.failed = apUsed.failed + 1 =>
           /\ Len(apEmitted') = 1
           /\ apEmitted'[1].type = "error"
           /\ apEmitted'[1].code = "PROCESSING_FAILED"
           /\ apEmitted'[1].frame = apLast'.frame
           /\ WaitingBefore(apLast'.frame) # {}
           /\ WaitingAfter(apLast'.frame) = {}
           /\ Len(apPending') = Len(apPending) - 1
           /\ processor'.isInitialized = processor.isInitialized
        /\ \A j \in DOMAIN apEmitted' :
              apEmitted' # apEmitted =>
                 \/ WaitingBefore(apEmitted'[j].frame) # {}
                 \/ /\ apLast'.step = "processAudio"
                    /\ apEmitted'[j].frame = apUsed.frames + 1
        /\ \A j \in DOMAIN apPending' : apPending'[j].frame <= apUsed'.frames
        /\ (ProcessAudioCalled /\ apUsed.failed > 0 /\ processor.isInitialized)
              => /\ apLast'.threw = ""
                 /\ apUsed'.frames = apUsed.frames + 1
                 /\ \/ WaitingAfter(apUsed'.frames) # {}
                    \/ Len(apEmitted') = 2
      ]_apVars

\* a frame has failed in a stage, and a later frame has been emitted
C27_Witness ==
    /\ apUsed.failed > 0
    /\ processor.isInitialized
    /\ Len(apEmitted) = 2
    /\ apEmitted[1].type = "processed"
    /\ apEmitted[1].frame > 1

\* the configuration a later processAudio() or getConfig() call reads: the
\* stage objects the configuration refers to, and the top-level switch
ObservedConfig ==
    <<[stage \in Stages |-> objects[processor.config[stage]]],
      processor.config.simdOptimization>>

\* C28: after configure(partial) every field of the configuration that
\* partial does not give, the fields of the stage objects included, has the
\* value it had before.
C28_ConfigureMerges ==
    [][ (apLast'.step = "configure"
           /\ apUsed'.configures = apUsed.configures + 1) =>
          LET partial == apLast'.partial[1]
          IN  /\ \A stage \in Stages :
                    LET old == objects[processor.config[stage]]
                        new == objects'[processor'.config[stage]]
                    IN  \A k \in DOMAIN old :
                           (stage \notin DOMAIN partial
                              \/ k \notin DOMAIN partial[stage])
                           => (k \in DOMAIN new /\ new[k] = old[k])
              /\ "simdOptimization" \notin DOMAIN partial =>
                    processor'.config.simdOptimization
                       = processor.config.simdOptimization
      ]_apVars

\* C29: no assignment of the caller to the object getConfig() returned, or to
\* a stage object of it, changes the configuration the processor reads.
C29_GetConfigCopies ==
    [][ (apLast'.step \in {"writeReturned", "writeReturnedStage"}
           /\ apUsed'.writes = apUsed.writes + 1) =>
          ObservedConfig' = ObservedConfig
      ]_apVars

\* ---------------------------------------------------------------------
\* Part 5: ModelManager

\* the names the caller passes: a registered model or another name
RequestedNames == ModelNames \cup {"unknown"}

\* this.models.get(name): the model, or undefined (the empty sequence)
getModel(name) ==
    IF name \in DOMAIN models THEN <<models[name]>> ELSE <<>>

\* mutant of ModelNotFound: the test left out
ModelNotFoundNever(model) ==
    FALSE

\* `!model` in downloadModel() and removeModel()
ModelNotFound(model) ==
    model = <<>>

\* `${this.downloadPath}/${name}.bin`, the download path being './models'
LocalPath(name) ==
    <<"./models", name, ".bin">>

\* the size strings of initializeDefaultModels(), as the groups the regular
\* expression of parseModelSize() matches in them
ModelSizes ==
    [tiny |-> [size |-> 39, unit |-> "MB"], base |-> [size |-> 74, unit |-> "MB"]]

\* ModelManager.parseModelSize(sizeStr), in units of 1024 * 1024 bytes; a
\* string the expression does not match is the empty sequence
parseModelSize(sizeStr) ==
    IF sizeStr = <<>> THEN DefaultSize
    ELSE IF sizeStr.unit = "GB" THEN sizeStr.size * 1024
    ELSE sizeStr.size

\* The sums and quotients of simulateDownload() are IEEE doubles, and
\* totalSize / 100 is not one exactly: after k additions `downloaded` is
\* k hundredths of totalSize up to a rounding error far smaller than one
\* hundredth, below (-1), exact (0) or above (1).  Each rounding is any of
\* the three.
Roundings == {-1, 0, 1}

\* `downloaded < totalSize` after k additions, the sum rounded as `rounded`
DownloadedLess(k, rounded) ==
    IF k < Chunks THEN TRUE
    ELSE IF k = Chunks THEN rounded < 0
    ELSE FALSE

\* mutant of Percentage: Math.min left out
PercentageUncapped(k, less, scaled) ==
    IF scaled < 0 THEN k - 1 ELSE k

\* Math.floor(Math.min((downloaded / totalSize) * 100, 100)) after k
\* additions: the quotient of a sum not below totalSize is not below 1,
\* division and product being rounded monotonically, so the minimum is 100;
\* below totalSize the product is k up to its rounding `scaled`
Percentage(k, less, scaled) ==
    IF ~less THEN FullPercentage
    ELSE IF scaled < 0 THEN k - 1 ELSE k

\* the object passed to onProgress, and the calls of onProgress one pass of
\* the loop makes
Progress(name, percentage) ==
    [model |-> name, total |-> parseModelSize(ModelSizes[name]),
     percentage |-> percentage]

\* one pass of the loop of simulateDownload(), up to its await of the timer
LoopPass(t, rounded, scaled) ==
    LET k == t.chunks + 1
        less == DownloadedLess(k, rounded)
    IN  [t EXCEPT !.chunks = k, !.less = less,
                  !.percentage = Percentage(k, less, scaled)]

\* mutant of Removed: localPath kept
RemovedKeepingPath(model) ==
    [model EXCEPT !.isDownloaded = FALSE]

\* removeModel(): model.isDownloaded = false; model.localPath = undefined
Removed(model) ==
    [model EXCEPT !.isDownloaded = FALSE, !.localPath = <<>>]

\* history: the step taken, what it threw, what it passed to onProgress,
\* whether it returned before any write, and the step before it
ModelStep(step, name, threw, progress, early) ==
    [step |-> step, name |-> name, threw |-> threw, progress |-> progress,
     early |-> early, after |-> <<mmLast.step, mmLast.name, mmLast.early>>]

\* ModelManager.downloadModel(name, onProgress?): throws for a name not
\* registered, returns at once for a model already downloaded, else starts
\* simulateDownload(), which makes its first pass and awaits the timer.  A
\* download without onProgress is observed only when it ends, and its
\* passes are not counted.
downloadModel(L, name, onProgress, rounded, scaled) ==
    LET model == getModel(name)
    IN
    /\ UNCHANGED notModels
    /\ IF ModelNotFound(model)
       THEN /\ mmLast' = ModelStep("downloadModel", name, "not found", <<>>, TRUE)
            /\ UNCHANGED <<models, transfers, mmUsed>>
       ELSE IF model = <<>>
       THEN \* model.isDownloaded of undefined
            /\ mmLast' = ModelStep("downloadModel", name, "TypeError", <<>>, TRUE)
            /\ UNCHANGED <<models, transfers, mmUsed>>
       ELSE IF model[1].isDownloaded
       THEN /\ mmLast' = ModelStep("downloadModel", name, "", <<>>, TRUE)
            /\ UNCHANGED <<models, transfers, mmUsed>>
       ELSE LET started == [name |-> name, onProgress |-> onProgress,
                            chunks |-> 0, less |-> TRUE, percentage |-> 0]
                t == IF onProgress THEN LoopPass(started, rounded, scaled)
                     ELSE started
            IN  /\ mmUsed.downloads < L.downloads
                /\ Len(transfers) < L.transfers
                /\ mmUsed' = [mmUsed EXCEPT !.downloads = @ + 1]
                /\ transfers' = Append(transfers, t)
                /\ mmLast' = ModelStep("downloadModel", name, "",
                                 IF onProgress
                                 THEN <<Progress(name, t.percentage)>>
                                 ELSE <<>>, FALSE)
                /\ models' = models

\* the timer of a download with onProgress fires and `downloaded` is still
\* less than totalSize: the next pass of the loop
downloadAdvances(i, rounded, scaled) ==
    /\ UNCHANGED notModels
    /\ i \in DOMAIN transfers
    /\ transfers[i].onProgress
    /\ transfers[i].less
    /\ LET t == LoopPass(transfers[i], rounded, scaled)
       IN  /\ transfers' = [transfers EXCEPT ![i] = t]
           /\ mmLast' = ModelStep("downloadAdvances", t.name, "",
                                  <<Progress(t.name, t.percentage)>>, FALSE)
    /\ UNCHANGED <<models, mmUsed>>

\* the download resolves (the loop ends): the model is marked and its path
\* set
downloadCompletes(i) ==
    /\ UNCHANGED notModels
    /\ i \in DOMAIN transfers
    /\ transfers[i].onProgress => ~transfers[i].less
    /\ models' = [models EXCEPT ![transfers[i].name] =
                     [isDownloaded |-> TRUE,
                      localPath |-> <<LocalPath(transfers[i].name)>>]]
    /\ transfers' = Without(transfers, i)
    /\ mmLast' = ModelStep("downloadCompletes", transfers[i].name, "", <<>>,
                           FALSE)
    /\ UNCHANGED mmUsed

\* the download rejects: downloadModel logs and rethrows
downloadFails(i) ==
    /\ UNCHANGED notModels
    /\ i \in DOMAIN transfers
    /\ transfers' = Without(transfers, i)
    /\ mmLast' = ModelStep("downloadFails", transfers[i].name, "download",
                           <<>>, FALSE)
    /\ UNCHANGED <<models, mmUsed>>

\* ModelManager.removeModel(name): throws for a name not registered, returns
\* at once for a model not downloaded, else clears the mark and the path
removeModel(L, name) ==
    LET model == getModel(name)
    IN
    /\ UNCHANGED notModels
    /\ IF ModelNotFound(model)
       THEN /\ mmLast' = ModelStep("removeModel", name, "not found", <<>>, TRUE)
            /\ UNCHANGED <<models, mmUsed>>
       ELSE IF model = <<>>
       THEN \* model.isDownloaded of undefined
            /\ mmLast' = ModelStep("removeModel", name, "TypeError", <<>>, TRUE)
            /\ UNCHANGED <<models, mmUsed>>
       ELSE IF ~model[1].isDownloaded
       THEN /\ mmLast' = ModelStep("removeModel", name, "", <<>>, TRUE)
            /\ UNCHANGED <<models, mmUsed>>
       ELSE /\ mmUsed.removes < L.removes
            /\ mmUsed' = [mmUsed EXCEPT !.removes = @ + 1]
            /\ models' = [models EXCEPT ![name] = Removed(model[1])]
            /\ mmLast' = ModelStep("removeModel", name, "", <<>>, FALSE)
    /\ UNCHANGED transfers

\* the callers pass no onProgress
ModelsNext ==
    \/ \E name \in RequestedNames : downloadModel(ModelLimits, name, FALSE, 0, 0)
    \/ \E i \in DOMAIN transfers : downloadCompletes(i)
    \/ \E i \in DOMAIN transfers : downloadFails(i)
    \/ \E name \in RequestedNames : removeModel(ModelLimits, name)

SpecModels == Init /\ [][ModelsNext]_mmVars

\* the callers pass onProgress
ProgressNext ==
    \/ \E name \in RequestedNames, rounded, scaled \in Roundings :
           downloadModel(ProgressLimits, name, TRUE, rounded, scaled)
    \/ \E i \in DOMAIN transfers, rounded, scaled \in Roundings :
           downloadAdvances(i, rounded, scaled)
    \/ \E i \in DOMAIN transfers : downloadCompletes(i)
    \/ \E i \in DOMAIN transfers : downloadFails(i)
    \/ \E name \in RequestedNames : removeModel(ProgressLimits, name)

SpecProgress == Init /\ [][ProgressNext]_mmVars

\* C30: a downloadModel(name) call made while a download of the same model
\* is in flight starts no second one: at most one download of a model is in
\* flight at any time.
C30_OneTransfer ==
    \A name \in ModelNames :
        Cardinality({i \in DOMAIN transfers : transfers[i].name = name}) <= 1

\* C31: a downloadModel(name) call whose download fails rejects with that
\* error and leaves the model not downloaded, with no localPath.
C31_FailureLeavesNotDownloaded ==
    mmLast.step = "downloadFails" =>
        /\ mmLast.threw = "download"
        /\ models[mmLast.name] = [isDownloaded |-> FALSE, localPath |-> <<>>]

\* C32: the percentages one downloadModel() call passes to onProgress never
\* decrease and never exceed 100, and the last one passed before the call
\* marks the model downloaded is 100.
C32_Percentages ==
    [][
        /\ \A p \in {mmLast'.progress[n] : n \in DOMAIN mmLast'.progress} :
               p.percentage >= 0 /\ p.percentage <= 100
        /\ \A i \in DOMAIN transfers :
               (mmLast'.step = "downloadAdvances" /\ Len(transfers') = Len(transfers)
                /\ transfers'[i] # transfers[i]) =>
                   /\ Len(mmLast'.progress) = 1
                   /\ mmLast'.progress[1].model = transfers[i].name
                   /\ mmLast'.progress[1].percentage >= transfers[i].percentage
        /\ \A i \in DOMAIN transfers :
               (mmLast'.step = "downloadCompletes" /\ transfers[i].onProgress
                /\ transfers' = Without(transfers, i)) =>
                   /\ transfers[i].percentage = 100
                   /\ models'[transfers[i].name].isDownloaded
      ]_mmVars

\* a download with onProgress has made its passes and ended
C32_Witness ==
    /\ mmLast.step = "downloadCompletes"
    /\ mmLast.after[1] = "downloadAdvances"
    /\ models[mmLast.name].isDownloaded

\* C33: downloadModel(name) for a name not registered throws the not-found
\* error, starts no download, calls onProgress not once and changes no
\* model.
C33_UnknownModel ==
    [][
        (mmLast'.step = "downloadModel" /\ mmLast'.name \notin DOMAIN models
         /\ mmLast' # mmLast) =>
            /\ mmLast'.threw = "not found"
            /\ mmLast'.progress = <<>>
            /\ transfers' = transfers
            /\ mmUsed' = mmUsed
            /\ models' = models
      ]_mmVars

\* an unknown name was asked for while a download ran and a model was held
C33_Witness ==
    /\ mmLast.step = "downloadModel"
    /\ mmLast.name \notin DOMAIN models
    /\ mmLast.threw = "not found"
    /\ transfers # <<>>
    /\ \E name \in DOMAIN models : models[name].isDownloaded

\* C34: removeModel(name) of a registered model never throws; of a model
\* not downloaded it changes nothing, of a downloaded one it clears
\* localPath and the mark, so a second removeModel(name) changes nothing.
C34_IdempotentRemove ==
    [][
        \A name \in DOMAIN models :
            (mmLast'.step = "removeModel" /\ mmLast'.name = name
             /\ mmLast' # mmLast) =>
                /\ mmLast'.threw = ""
                /\ transfers' = transfers
                /\ models' = IF models[name].isDownloaded
                             THEN [models EXCEPT ![name] =
                                      [isDownloaded |-> FALSE, localPath |-> <<>>]]
                             ELSE models
                /\ (mmLast.step = "removeModel" /\ mmLast.name = name) =>
                       models' = models
      ]_mmVars

\* a downloaded model was removed, and removed again
C34_Witness ==
    /\ mmLast.step = "removeModel"
    /\ mmLast.early
    /\ mmLast.threw = ""
    /\ mmLast.after = <<"removeModel", mmLast.name, FALSE>>

\* C37: the number of frames in the buffer of the transcriber never exceeds
\* the flush threshold of 10, whatever the interleaving of processAudio
\* calls and inference completions and failures.
C37_BoundedBuffer ==
    Len(audioBuffer) <= FlushThreshold

\* AudioCapture.isActive()
isActive == isCapturing

\* C38: isActive() is true exactly when the capture holds a session record
\* whose isActive flag is true, whatever the interleaving of startCapture,
\* stopCapture and dispose calls and of the addon's successes and failures.
C38_CaptureConsistent ==
    isActive <=> (currentSession # <<>> /\ currentSession[1].isActive)

\* a capture started again after a stop, and one stopped with its session
\* kept
C38_Witness ==
    /\ captureLast = "nativeStartReturns"
    /\ isCapturing
    /\ currentSession # <<>>
    /\ \E j \in DOMAIN captureEvents : captureEvents[j].type = "stop"

\* C39: with confidenceThreshold configured to 0, every inference result
\* with non-blank text produces a transcription event, whatever its
\* confidence.
C39_ZeroThreshold ==
    [][
        (/\ last' = "inferenceReturns"
         /\ Len(results') = Len(results) + 1
         /\ config = 0
         /\ Trim(results'[Len(results')].text) # <<>>) =>
            \E e \in NewEvents :
                /\ e.type = "transcription"
                /\ e.win = results'[Len(results')].win
      ]_vars

\* C40: an inference call made from processAudio that fails produces
\* exactly one error event, with the code TRANSCRIPTION_FAILED.
C40_OneErrorEvent ==
    [][
        \A i \in DOMAIN pending :
            (/\ last' = "inferenceFails"
             /\ pending' = Without(pending, i)
             /\ Len(results') = Len(results) + 1
             /\ results'[Len(results')].win = pending[i].win
             /\ pending[i].kind = "processAudio") =>
                /\ Len(events') = Len(events) + 1
                /\ events'[Len(events')].type = "error"
                /\ events'[Len(events')].code = "TRANSCRIPTION_FAILED"
      ]_vars

\* ---------------------------------------------------------------------
\* Part 6: Logger and ErrorHandler.retryOperation

LoggerLimits ==
    [logged |-> MaxLogged]

\* `this.config.level || LogLevel.INFO`: 0 is falsy
LevelOrInfo(level) ==
    IF level = 0 THEN LogLevel.INFO ELSE level

\* Logger.isEnabled(level)
isEnabled(level) ==
    level <= LevelOrInfo(logger.level)

\* Logger.setLevel(level)
setLevel(level) ==
    /\ UNCHANGED notLogger
    /\ logger' = [logger EXCEPT !.level = level,
                                !.last = [step |-> "setLevel", level |-> level,
                                          answer |-> FALSE]]

\* Logger.log(level, message), which error(), warn(), info(), debug() and
\* trace() call: writes the formatted entry when the level is enabled
log(L, level) ==
    /\ UNCHANGED notLogger
    /\ IF ~isEnabled(level)
       THEN logger' = [logger EXCEPT !.last = [step |-> "log", level |-> level,
                                               answer |-> FALSE]]
       ELSE /\ Len(logger.output) < L.logged
            /\ logger' = [logger EXCEPT !.output = Append(@, level),
                                        !.last = [step |-> "log", level |-> level,
                                                  answer |-> TRUE]]

\* a call of Logger.isEnabled(level) by the user of the logger
askEnabled(level) ==
    /\ UNCHANGED notLogger
    /\ logger' = [logger EXCEPT !.last = [step |-> "isEnabled", level |-> level,
                                          answer |-> isEnabled(level)]]

LoggerNext ==
    \/ \E level \in LogLevels : setLevel(level)
    \/ \E level \in LogLevels : log(LoggerLimits, level)
    \/ \E level \in LogLevels : askEnabled(level)

SpecLogger == Init /\ [][LoggerNext]_logger

\* C35: a log call at level M writes exactly when M <= L, L the level the
\* logger is configured with, and isEnabled(M) answers the same.
C35_LevelFiltering ==
    logger.last.step \in {"log", "isEnabled"} =>
        (logger.last.answer <=> logger.last.level <= logger.level)

RetryLimits ==
    [calls |-> MaxRetryCalls, maxRetries |-> MaxMaxRetries]

\* the baseDelay values passed: the default, and that of
\* handleDownloadError
BaseDelays == {1000, 2000}

\* what the operation rejects with, and what it resolves with
OperationErrors == {"error 1", "error 2"}
OperationValues == {"value"}

\* baseDelay * Math.pow(2, attempt - 1)
Backoff(baseDelay, attempt) ==
    baseDelay * 2 ^ (attempt - 1)

\* the head of the for loop: the operation is called when attempt <=
\* maxRetries, and past the loop `throw lastError!`
LoopHead(r, attempt) ==
    IF attempt <= r.maxRetries
    THEN [r EXCEPT !.phase = "calling", !.attempt = attempt,
                   !.invoked = @ + 1]
    ELSE [r EXCEPT !.phase = "rejected", !.attempt = attempt,
                   !.settled = r.lastError]

\* ErrorHandler.retryOperation(operation, maxRetries, baseDelay) up to its
\* first await
retryOperation(L, maxRetries, baseDelay) ==
    /\ UNCHANGED notRetry
    /\ retry.phase \in {"idle", "resolved", "rejected"}
    /\ retry.calls < L.calls
    /\ retry' = LoopHead([NoRetry EXCEPT !.maxRetries = maxRetries,
                                         !.baseDelay = baseDelay,
                                         !.calls = retry.calls + 1], 1)

\* operation() resolves: retryOperation returns its value
operationResolves(value) ==
    /\ UNCHANGED notRetry
    /\ retry.phase = "calling"
    /\ retry' = [retry EXCEPT !.phase = "resolved", !.settled = value]

\* operation() rejects: the last attempt rethrows, an earlier one waits
operationRejects(error) ==
    /\ UNCHANGED notRetry
    /\ retry.phase = "calling"
    /\ retry' = IF retry.attempt = retry.maxRetries
                THEN [retry EXCEPT !.phase = "rejected", !.lastError = error,
                                   !.failed = error, !.settled = error]
                ELSE [retry EXCEPT !.phase = "waiting", !.lastError = error,
                                   !.failed = error,
                                   !.delay = Backoff(retry.baseDelay,
                                                     retry.attempt)]

\* the timer of the backoff fires: the next turn of the loop
backoffEnds ==
    /\ UNCHANGED notRetry
    /\ retry.phase = "waiting"
    /\ retry' = LoopHead(retry, retry.attempt + 1)

RetryNext ==
    \/ \E maxRetries \in 0 .. RetryLimits.maxRetries, baseDelay \in BaseDelays :
           retryOperation(RetryLimits, maxRetries, baseDelay)
    \/ \E value \in OperationValues : operationResolves(value)
    \/ \E error \in OperationErrors : operationRejects(error)
    \/ backoffEnds

SpecRetry == Init /\ [][RetryNext]_retry

\* C36: retryOperation calls the operation at most maxRetries times,
\* returns the value of the first call that succeeds, waits baseDelay *
\* 2^(k-1) after the failure of call k, and when maxRetries calls have
\* failed rejects with the error of the last of them, for maxRetries >= 0.
C36_Retry ==
    /\ retry.invoked <= retry.maxRetries
    /\ retry.phase = "waiting" =>
           retry.delay = retry.baseDelay * 2 ^ (retry.invoked - 1)
    /\ retry.phase = "resolved" => retry.settled \in OperationValues
    /\ retry.phase = "rejected" =>
           /\ retry.invoked = retry.maxRetries
           /\ retry.failed \in OperationErrors
           /\ retry.settled = retry.failed

====
